---- MODULE Spec2Model ----
(***************************************************************************)
(* iCrab agent execution kernel.                                           *)
(*                                                                         *)
(* SpecMgr : SubagentManager (src/agent/subagent_manager.rs) driven        *)
(*           through its public API, with its background runners           *)
(*           (agent::run_subagent).                                        *)
(* SpecRun : the manager with a dispatcher turn that reaches it through    *)
(*           the spawn tool, a second thread that uses the public API,     *)
(*           and subagents that run the whole loop with tools.             *)
(* SpecLoop: agent::run_agent_loop of one subagent, for every iteration    *)
(*           cap and every shape of tool call.                             *)
(* SpecDisp: the dispatcher loop of main with the chat transport and the   *)
(*           heartbeat runner as producers; its turns call tools.          *)
(* SpecQueue: the inbound channel with the chat transport, the heartbeat   *)
(*           runner and the cron runner; the turns are a single LLM call.  *)
(* SpecParse: tools::cron::parse_cron_expr, one loop iteration a step.     *)
(* SpecMatch: tools::cron::next_match over the proleptic calendar.         *)
(* SpecCron: the CronStore under the cron tool, reloads of jobs.json and   *)
(*           the ticks of cron_runner.                                     *)
(* SpecSession: the Session of one chat over its stored history.           *)
(* SpecCronIo: SpecCron with a jobs.json whose write may fail.              *)
(* SpecSessionApi: the Session under every caller of its interface.        *)
(* SpecTurn: agent::process_message, the stateful turns of one chat with   *)
(*           the summariser (src/agent/summarize.rs).                      *)
(* SpecPoll: telegram::poll_loop with its offset and its allow-list.       *)
(***************************************************************************)
EXTENDS Integers, Sequences, FiniteSets, TLC

VARIABLES
    max_iterations, \* SubagentManager.max_iterations (set by new, never written)
    spawn_budget, \* spawn calls the environment will still start
    next_id,      \* SubagentManager.next_id (AtomicU64)
    tasks,        \* ManagerState.tasks: task id -> TaskEntry
    clock,        \* the last value Instant::now() returned
    spc,          \* per thread: position inside SubagentManager::spawn
    sid,          \* per thread: spawn's local id_num
    runner,       \* task id -> the run_agent_loop state of its tokio task
    turn,         \* the run_agent_loop state of the dispatcher turn
    outbound,     \* the outbound mpsc channel (bounded)
    spawned,      \* history: the ids spawn has returned, in return order
    cancels,      \* history: task id -> how often cancel returned true for it
    inbound,      \* the inbound mpsc channel of main (bounded)
    last_chat_id, \* main's last_chat_id (AtomicI64)
    disp,         \* the dispatcher loop of main: position, message, reply
    delivered,    \* ToolCtx.delivered of the turn in progress
    sessions,     \* the session store: chat id -> stored history
    tg,           \* telegram::poll_loop: updates fetched and not yet sent
    hb,           \* the heartbeat runner: chat id loaded, tasks not yet sent
    jobs,         \* CronStore.jobs
    now,          \* unix_now() at the last cron tick
    cron,         \* unix_now(), jobs.json, CronStore.next_id, the last add's result
    parser,       \* a parse_cron_expr / next_match call: input, position, result
    session,      \* agent::session: the Session of the turn and the chat_summary table
    log           \* history: messages queued, served and sent, in order

\* the state of main's dispatcher and of the producers around it
dispatcher == <<inbound, last_chat_id, disp, delivered, sessions, tg, hb, jobs, now, cron, parser, session, log>>

vars == <<max_iterations, spawn_budget, next_id, tasks, clock, spc, sid, runner, turn, outbound, spawned, cancels, dispatcher>>

---------------------------------------------------------------------------
(* Bounds of the model.                                                    *)

\* spawn calls per behaviour of SpecMgr (caps next_id)
MaxTasks == 3
\* spawn calls per behaviour of SpecRun
RunTasks == 2
\* retention cap of prune_completed; the source value is 50
MAX_COMPLETED_TASKS == 1
\* SubagentManager.max_iterations given to SubagentManager::new in SpecRun
SubagentMaxIterations == 1
\* iteration cap of the dispatcher turn's loop in SpecRun
TurnMaxIterations == 2
\* largest iteration cap k tried by SpecLoop
MaxK == 2
\* most tool calls in one LLM response (SpecLoop)
MaxCalls == 2
\* capacity of the outbound channel in the model
OutboundCap == 1

---------------------------------------------------------------------------
(* Option<T> as a sequence of length at most one.                          *)

None == <<>>
Some(x) == <<x>>
IsSome(o) == o # <<>>
Unwrap(o) == o[1]

\* Result<String, AgentError>
Ok(s) == [ok |-> TRUE, val |-> s]
Err(e) == [ok |-> FALSE, val |-> e]

---------------------------------------------------------------------------
(* llm::Message, llm::ToolCall, llm::LlmResponse, tools::ToolResult        *)

Message(role, content, tool_call_id, tool_calls) ==
    [role |-> role, content |-> content,
     tool_call_id |-> tool_call_id, tool_calls |-> tool_calls]

\* args_ok: whether function.arguments parses as JSON
ToolCall(id, name, args_ok) == [id |-> id, name |-> name, args_ok |-> args_ok]

LlmOk(content, tool_calls) ==
    [ok |-> TRUE, content |-> content, tool_calls |-> tool_calls, err |-> ""]
LlmErr(e) == [ok |-> FALSE, content |-> "", tool_calls |-> <<>>, err |-> e]

ToolResult(for_llm, for_user, silent, is_error, async_) ==
    [for_llm |-> for_llm, for_user |-> for_user, silent |-> silent,
     is_error |-> is_error, async_ |-> async_]
ToolResult_ok(s) == ToolResult(s, None, FALSE, FALSE, FALSE)
ToolResult_user(s) == ToolResult(s, Some(s), FALSE, FALSE, FALSE)
ToolResult_silent(s) == ToolResult(s, None, TRUE, FALSE, FALSE)
ToolResult_error(s) == ToolResult(s, None, FALSE, TRUE, FALSE)
ToolResult_async(s) == ToolResult(s, None, FALSE, FALSE, TRUE)

\* str::trim on the contents the model draws
Trim(s) ==
    CASE s = " " -> ""
      [] s = " done " -> "done"
      [] OTHER -> s

\* Display of AgentError::Llm(LlmError::Http(s))
AgentErrorLlm(e) == "agent llm: llm http: " \o e

\* Display of the serde_json error of a failed parse
JsonError == "expected value at line 1 column 1"

\* ToolCtx: chat_id (Option), channel (Option), whether outbound_tx is Some
ToolCtx(chat_id, channel, has_tx) ==
    [chat_id |-> chat_id, channel |-> channel, has_tx |-> has_tx]

OutboundMsg(chat_id, text, channel) ==
    [chat_id |-> chat_id, text |-> text, channel |-> channel]

\* mpsc::Sender::try_send: a full channel drops the message
try_send(ch, m) == IF Len(ch) < OutboundCap THEN Append(ch, m) ELSE ch

---------------------------------------------------------------------------
(* agent::run_agent_loop, cut at its suspension points (llm.chat().await   *)
(* and tool.execute().await).  A loop state:                               *)
(*   pc       "init" not polled yet, "llm" a chat call is in flight,       *)
(*            "tool" the head of pending is executing, "done" returned     *)
(*   iter     LLM calls issued so far      invoked  tools started so far   *)
(*   sent     try_send calls made so far   pending  tool calls left        *)

LoopNew(messages, registry, ctx, cap) ==
    [pc |-> "init", max |-> cap, iter |-> 0, messages |-> messages,
     pending |-> <<>>, result |-> None, invoked |-> 0, sent |-> 0,
     registry |-> registry, ctx |-> ctx]

\* the loop head with the range 0..=max_iterations
LoopHead_inclusive(L) ==
    IF L.iter <= L.max
    THEN [L EXCEPT !.pc = "llm", !.iter = @ + 1]
    ELSE [L EXCEPT !.pc = "done", !.result = Some(Ok("Max iterations reached."))]

\* `for _iter in 1..=max_iterations { llm.chat(..).await`, or fall out of the loop
LoopHead(L) ==
    IF L.iter < L.max
    THEN [L EXCEPT !.pc = "llm", !.iter = @ + 1]
    ELSE [L EXCEPT !.pc = "done", !.result = Some(Ok("Max iterations reached."))]

\* messages.push(Message { role: Tool, content, tool_call_id: Some(tc.id) })
PushTool(L, content) ==
    [L EXCEPT !.messages = Append(@, Message("Tool", content, Some(Head(L.pending).id), None)),
              !.pending = Tail(@)]

RECURSIVE ExecCalls_fail(_)
\* the loop over the tool calls with `?` on unparsable arguments and on an
\* unregistered name: the first failing call ends the loop with an error
ExecCalls_fail(L) ==
    IF L.pending = <<>> THEN LoopHead(L)
    ELSE LET tc == Head(L.pending) IN
         IF ~tc.args_ok \/ tc.name \notin L.registry
         THEN [L EXCEPT !.pc = "done", !.result = Some(Err("agent tool: " \o tc.name))]
         ELSE [L EXCEPT !.pc = "tool", !.invoked = @ + 1]

RECURSIVE ExecCalls_skip(_)
\* the loop over the tool calls with a bare `continue` on unparsable arguments
ExecCalls_skip(L) ==
    IF L.pending = <<>> THEN LoopHead(L)
    ELSE LET tc == Head(L.pending) IN
         IF ~tc.args_ok
         THEN ExecCalls_skip([L EXCEPT !.pending = Tail(@)])
         ELSE IF tc.name \notin L.registry
         THEN ExecCalls_skip(PushTool(L, ToolResult_error("tool '" \o tc.name \o "' not found").for_llm))
         ELSE [L EXCEPT !.pc = "tool", !.invoked = @ + 1]

RECURSIVE ExecCalls(_)
\* `for tc in &response.tool_calls`, up to the next tool that really runs
ExecCalls(L) ==
    IF L.pending = <<>> THEN LoopHead(L)
    ELSE LET tc == Head(L.pending) IN
         IF ~tc.args_ok
         THEN ExecCalls(PushTool(L, "Invalid JSON arguments: " \o JsonError))
         ELSE IF tc.name \notin L.registry
         THEN ExecCalls(PushTool(L, ToolResult_error("tool '" \o tc.name \o "' not found").for_llm))
         ELSE [L EXCEPT !.pc = "tool", !.invoked = @ + 1]

\* the chat call returns
OnLlm(L, resp) ==
    IF ~resp.ok
    THEN [L EXCEPT !.pc = "done", !.result = Some(Err(AgentErrorLlm(resp.err)))]
    ELSE IF resp.tool_calls = <<>>
    THEN [L EXCEPT !.pc = "done",
                   !.result = Some(Ok(IF Trim(resp.content) = "" THEN "(No response)"
                                      ELSE Trim(resp.content)))]
    ELSE ExecCalls([L EXCEPT
            !.messages = Append(@, Message("Assistant", resp.content, None,
                                           Some(resp.tool_calls))),
            !.pending = resp.tool_calls])

\* whether the loop forwards result.for_user to the outbound channel
Forwards_silent(L, result) ==
    IsSome(result.for_user) /\ result.silent /\ L.ctx.has_tx /\ IsSome(L.ctx.chat_id)

Forwards(L, result) ==
    IsSome(result.for_user) /\ ~result.silent /\ L.ctx.has_tx /\ IsSome(L.ctx.chat_id)

ForUserMsg(L, result) ==
    OutboundMsg(Unwrap(L.ctx.chat_id), Unwrap(result.for_user),
                IF IsSome(L.ctx.channel) THEN Unwrap(L.ctx.channel) ELSE "telegram")

\* the executing tool returns `result`
OnTool(L, result) ==
    ExecCalls(PushTool([L EXCEPT !.sent = IF Forwards(L, result) THEN @ + 1 ELSE @],
                       result.for_llm))

---------------------------------------------------------------------------
(* agent::subagent_manager                                                 *)

\* format!("subagent-{}", id_num)
TaskId(n) == "subagent-" \o ToString(n)

TaskIds == {TaskId(n) : n \in 1..MaxTasks}

\* TaskEntry { info: SubagentTask { id, status, result, created_at }, abort_handle }
\* abort_handle: TRUE for Some(handle of the task's own runner), FALSE for None
TaskEntry(id, created_at) ==
    [id |-> id, status |-> "Running", result |-> None,
     created_at |-> created_at, abort_handle |-> FALSE]

\* HashMap::insert
Insert(ts, k, e) == [x \in DOMAIN ts \cup {k} |-> IF x = k THEN e ELSE ts[x]]

RECURSIVE Orders(_)
\* the orders in which HashMap::iter may visit the keys S
Orders(S) ==
    IF S = {} THEN {<<>>}
    ELSE UNION {{<<x>> \o o : o \in Orders(S \ {x})} : x \in S}

RECURSIVE InsertSorted(_, _)
InsertSorted(sorted, p) ==
    IF sorted = <<>> THEN <<p>>
    ELSE IF Head(sorted)[2] <= p[2]
    THEN <<Head(sorted)>> \o InsertSorted(Tail(sorted), p)
    ELSE <<p>> \o sorted

RECURSIVE sort_by_key(_)
\* Vec::sort_by_key(|(_, t)| *t): stable, oldest first
sort_by_key(v) ==
    IF v = <<>> THEN <<>>
    ELSE InsertSorted(sort_by_key(SubSeq(v, 1, Len(v) - 1)), v[Len(v)])

\* prune_completed without the filter on the status: every entry counts
\* towards the cap and can be dropped
prune_completed_unfiltered(ts, iter_order) ==
    LET all == [i \in 1..Len(iter_order) |->
                    <<iter_order[i], ts[iter_order[i]].created_at>>]
    IN  IF Len(all) <= MAX_COMPLETED_TASKS THEN ts
        ELSE LET sorted == sort_by_key(all)
                 to_remove == Len(all) - MAX_COMPLETED_TASKS
                 gone == {sorted[i][1] : i \in 1..to_remove}
             IN  [k \in DOMAIN ts \ gone |-> ts[k]]

\* prune_completed, with the order in which st.tasks.iter() visits the map
prune_completed(ts, iter_order) ==
    LET NotRunning(k) == ts[k].status # "Running"
        keys == SelectSeq(iter_order, NotRunning)
        non_running == [i \in 1..Len(keys) |-> <<keys[i], ts[keys[i]].created_at>>]
    IN  IF Len(non_running) <= MAX_COMPLETED_TASKS THEN ts
        ELSE LET sorted == sort_by_key(non_running)
                 to_remove == Len(non_running) - MAX_COMPLETED_TASKS
                 gone == {sorted[i][1] : i \in 1..to_remove}
             IN  [k \in DOMAIN ts \ gone |-> ts[k]]

\* complete_task without the early return on an entry that is already terminal
complete_task_overwrite(ts, task_id, status, result) ==
    LET st == IF task_id \in DOMAIN ts
              THEN [ts EXCEPT ![task_id].status = status,
                              ![task_id].result = result,
                              ![task_id].abort_handle = FALSE]
              ELSE ts
    IN  {prune_completed(st, o) : o \in Orders(DOMAIN st)}

\* SubagentManager::complete_task: the maps it can leave behind
complete_task(ts, task_id, status, result) ==
    IF task_id \in DOMAIN ts /\ ts[task_id].status # "Running"
    THEN {ts}
    ELSE LET st == IF task_id \in DOMAIN ts
                   THEN [ts EXCEPT ![task_id].status = status,
                                   ![task_id].result = result,
                                   ![task_id].abort_handle = FALSE]
                   ELSE ts
         IN  {prune_completed(st, o) : o \in Orders(DOMAIN st)}

\* cancel without the check that the entry is still Running
cancel_any(ts, task_id) ==
    IF task_id \notin DOMAIN ts
    THEN [tasks |-> ts, ret |-> FALSE, abort |-> FALSE]
    ELSE [tasks |-> [ts EXCEPT ![task_id].abort_handle = FALSE,
                               ![task_id].status = "Cancelled",
                               ![task_id].result = Some("Cancelled")],
          ret |-> TRUE,
          abort |-> ts[task_id].abort_handle]

\* SubagentManager::cancel: the map it leaves, its return value, and whether
\* it called abort() on the task's handle
cancel(ts, task_id) ==
    IF task_id \notin DOMAIN ts
    THEN [tasks |-> ts, ret |-> FALSE, abort |-> FALSE]
    ELSE IF ts[task_id].status # "Running"
    THEN [tasks |-> ts, ret |-> FALSE, abort |-> FALSE]
    ELSE [tasks |-> [ts EXCEPT ![task_id].abort_handle = FALSE,
                               ![task_id].status = "Cancelled",
                               ![task_id].result = Some("Cancelled")],
          ret |-> TRUE,
          abort |-> ts[task_id].abort_handle]

\* SubagentManager::get_task
get_task(ts, task_id) == IF task_id \in DOMAIN ts THEN Some(ts[task_id]) ELSE None

\* AbortHandle::abort on a tokio task: a finished task is unaffected, any
\* other is dropped at the suspension point it is parked at
abort(L) == IF L.pc \in {"done", "panicked"} THEN L ELSE [L EXCEPT !.pc = "aborted"]

---------------------------------------------------------------------------
(* Inputs of SpecMgr                                                       *)

\* "turn": the dispatcher turn (SpawnTool::execute); "api": a thread that
\* calls SubagentManager::spawn itself, as tests/subagent_tests.rs does
Threads == {"turn", "api"}

\* tools of the main agent and of the subagents that the inputs below name
MainRegistry == {"read_file", "spawn"}
SubRegistry == {"read_file", "message"}

ChatId == 12345
DispatcherCtx == ToolCtx(Some(ChatId), Some("telegram"), TRUE)

\* what the model answers to the dispatcher turn
TurnResponses ==
    {LlmOk("Task started.", <<>>),
     LlmOk("", <<ToolCall("call_spawn", "spawn", TRUE)>>)}

\* what the model answers to a subagent
RunnerResponses ==
    {LlmErr("500"),
     LlmOk(" done ", <<>>),
     LlmOk("", <<ToolCall("call_1", "read_file", TRUE)>>),
     LlmOk("", <<ToolCall("call_2", "message", TRUE)>>)}

\* complete_task calls made from outside the runner (tests::complete_task_idempotent)
ExternalCompletions == {<<"Completed", Some("a")>>, <<"Failed", Some("b")>>}

EmptyMap == [x \in {} |-> x]

\* the messages run_subagent hands to run_agent_loop
SubagentMessages ==
    <<Message("System", "You are a subagent.", None, None),
      Message("User", "Long task", None, None)>>

\* the messages process_message hands to run_agent_loop (empty history)
TurnMessages ==
    <<Message("System", "You are iCrab.", None, None),
      Message("User", "Start background task", None, None)>>

\* MessageTool::execute and ReadFile::execute: the results a tool can return
\* and the outbound channel it leaves
ToolOutcomes(L, name, ch) ==
    IF name = "message"
    THEN IF ~L.ctx.has_tx
         THEN {[result |-> ToolResult_error("no outbound channel (message tool unavailable)"), outbound |-> ch, sends |-> 0]}
         ELSE IF ~IsSome(L.ctx.chat_id)
         THEN {[result |-> ToolResult_error("no chat_id (message tool unavailable)"), outbound |-> ch, sends |-> 0]}
         ELSE IF Len(ch) < OutboundCap
         THEN {[result |-> ToolResult_silent("sent"),
                outbound |-> try_send(ch, OutboundMsg(Unwrap(L.ctx.chat_id), "result",
                        IF IsSome(L.ctx.channel) THEN Unwrap(L.ctx.channel) ELSE "telegram")),
                sends |-> 1]}
         ELSE {[result |-> ToolResult_error("no available capacity"), outbound |-> ch, sends |-> 1]}
    ELSE {[result |-> ToolResult_ok("file content"), outbound |-> ch, sends |-> 0],
          [result |-> ToolResult_error("read error"), outbound |-> ch, sends |-> 0]}

---------------------------------------------------------------------------
(* tools::cron: the 5-field expression parser.  A &str is the sequence of  *)
(* its characters.  parse_cron_expr is cut at the iterations of the two    *)
(* `while v <= end` loops of parse_field; a parser state:                  *)
(*   pc      "field" at the head of the `for part` loop of field k,        *)
(*           "loop" inside a while loop, "done" returned                   *)
(*   tokens  the fields of the expression     k     the field being parsed *)
(*   parts   the parts of field k not yet parsed                           *)
(*   out     parse_field's out vector         fields  the fields parsed    *)
(*   v, last, step   the while loop's variable, its bound and its step     *)

\* values a while loop may push before the model stops counting them
MaxPush == 70

U8_MAX == 255

Digits == {"0", "1", "2", "3", "4", "5", "6", "7", "8", "9"}

DigitVal(c) ==
    CASE c = "0" -> 0 [] c = "1" -> 1 [] c = "2" -> 2 [] c = "3" -> 3 [] c = "4" -> 4
      [] c = "5" -> 5 [] c = "6" -> 6 [] c = "7" -> 7 [] c = "8" -> 8 [] c = "9" -> 9

\* char::is_whitespace on the characters the model draws
IsSpace(c) == c \in {" ", "\t"}

\* str::trim
RECURSIVE TrimStart(_)
TrimStart(s) == IF s # <<>> /\ IsSpace(Head(s)) THEN TrimStart(Tail(s)) ELSE s

RECURSIVE TrimEnd(_)
TrimEnd(s) ==
    IF s # <<>> /\ IsSpace(s[Len(s)]) THEN TrimEnd(SubSeq(s, 1, Len(s) - 1)) ELSE s

TrimStr(s) == TrimEnd(TrimStart(s))

\* str::split(sep): the pieces between the separators, empty ones included
RECURSIVE Split(_, _)
Split(s, sep) ==
    IF \A i \in DOMAIN s : s[i] # sep
    THEN <<s>>
    ELSE LET i == CHOOSE j \in DOMAIN s : s[j] = sep /\ \A l \in 1..(j - 1) : s[l] # sep
         IN  <<SubSeq(s, 1, i - 1)>> \o Split(SubSeq(s, i + 1, Len(s)), sep)

\* str::split_whitespace: the maximal runs of characters that are not spaces
RECURSIVE split_whitespace(_)
split_whitespace(s) ==
    LET t == TrimStart(s) IN
    IF t = <<>> THEN <<>>
    ELSE IF \A i \in DOMAIN t : ~IsSpace(t[i]) THEN <<t>>
    ELSE LET i == CHOOSE j \in DOMAIN t : IsSpace(t[j]) /\ \A l \in 1..(j - 1) : ~IsSpace(t[l])
         IN  <<SubSeq(t, 1, i - 1)>> \o split_whitespace(SubSeq(t, i + 1, Len(t)))

\* the value of a string of digits
RECURSIVE DecimalVal(_)
DecimalVal(s) ==
    IF s = <<>> THEN 0 ELSE DecimalVal(SubSeq(s, 1, Len(s) - 1)) * 10 + DigitVal(s[Len(s)])

\* str::parse::<u8>: Some(value) or None; a leading "+" is accepted
ParseU8(s) ==
    LET d == IF s # <<>> /\ Head(s) = "+" THEN Tail(s) ELSE s IN
    IF d = <<>> \/ \E i \in DOMAIN d : d[i] \notin Digits THEN None
    ELSE IF DecimalVal(d) > U8_MAX THEN None
    ELSE Some(DecimalVal(d))

\* u8::saturating_add
saturating_add(v, step) == IF v + step > U8_MAX THEN U8_MAX ELSE v + step

\* min..=max pushed in order
RangeSeq(lo, hi) == [i \in 1..(IF lo > hi THEN 0 ELSE hi - lo + 1) |-> lo + i - 1]

\* the values of a set of u8 in ascending order
SortedSeq(S) == SelectSeq(RangeSeq(0, U8_MAX), LAMBDA x : x \in S)

\* sort_unstable followed by dedup
sort_dedup(out) == SortedSeq({out[i] : i \in DOMAIN out})

\* the (min, max) parse_cron_expr passes to parse_field for field k
FieldMin == <<0, 0, 1, 1, 0>>
FieldMax == <<59, 23, 31, 12, 6>>

CronError_Validation(s) == "cron validation: " \o s
CronError_Io(s) == "cron io: " \o s

\* CronExpr
CronExpr(f) == [minutes |-> f[1], hours |-> f[2], doms |-> f[3], months |-> f[4], dows |-> f[5]]

ParseDone(P, result) == [P EXCEPT !.pc = "done", !.result = Some(result)]

\* parse_cron_expr up to the first part of the first field
ParseBegin(expr) ==
    LET tokens == split_whitespace(expr)
        P == [pc |-> "field", expr |-> expr, tokens |-> tokens, k |-> 1, parts |-> <<>>, out |-> <<>>,
              fields |-> <<>>, v |-> 0, last |-> 0, step |-> 0, result |-> None]
    IN  IF Len(tokens) # 5
        THEN ParseDone(P, Err(CronError_Validation(
                 "cron expression must have exactly 5 fields (minute hour dom month dow)")))
        ELSE [P EXCEPT !.parts = Split(tokens[1], ",")]

\* the end of parse_field for field k, and the call for the next field
FieldEnd(P) ==
    LET sorted == sort_dedup(P.out) IN
    IF sorted = <<>> THEN ParseDone(P, Err(CronError_Validation("empty field")))
    ELSE IF P.k = 5
    THEN ParseDone([P EXCEPT !.fields = Append(@, sorted), !.out = <<>>],
                   Ok(CronExpr(Append(P.fields, sorted))))
    ELSE [P EXCEPT !.fields = Append(@, sorted), !.out = <<>>, !.k = @ + 1,
                   !.parts = Split(P.tokens[P.k + 1], ",")]

\* one part of parse_field's `for part in token.split(',')`
PartStep(P) ==
    LET part == TrimStr(Head(P.parts))
        min == FieldMin[P.k]
        max == FieldMax[P.k]
        next == [P EXCEPT !.parts = Tail(@)]
    IN  IF part = <<>> THEN next
        ELSE IF part = <<"*">> THEN [next EXCEPT !.out = @ \o RangeSeq(min, max)]
        ELSE IF Len(part) >= 2 /\ SubSeq(part, 1, 2) = <<"*", "/">>
        THEN LET step == ParseU8(SubSeq(part, 3, Len(part))) IN
             IF ~IsSome(step) THEN ParseDone(P, Err(CronError_Validation("invalid step")))
             ELSE IF Unwrap(step) = 0
             THEN ParseDone(P, Err(CronError_Validation("step must be positive")))
             ELSE [next EXCEPT !.pc = "loop", !.v = min, !.last = max, !.step = Unwrap(step)]
        ELSE IF \E i \in DOMAIN part : part[i] = "-"
        THEN LET i == CHOOSE j \in DOMAIN part : part[j] = "-" /\ \A l \in 1..(j - 1) : part[l] # "-"
                 rest == Split(TrimStr(SubSeq(part, i + 1, Len(part))), "/")
                 start == ParseU8(TrimStr(SubSeq(part, 1, i - 1)))
                 end == ParseU8(rest[1])
                 step == IF Len(rest) < 2 THEN 1
                         ELSE IF IsSome(ParseU8(rest[2])) THEN Unwrap(ParseU8(rest[2])) ELSE 1
             IN  IF ~IsSome(start)
                 THEN ParseDone(P, Err(CronError_Validation("invalid range start")))
                 ELSE IF ~IsSome(end)
                 THEN ParseDone(P, Err(CronError_Validation("invalid range end")))
                 ELSE IF Unwrap(start) > Unwrap(end)
                 THEN ParseDone(P, Err(CronError_Validation("range start > end")))
                 ELSE IF Unwrap(start) < min \/ Unwrap(end) > max
                 THEN ParseDone(P, Err(CronError_Validation("range out of bounds")))
                 ELSE [next EXCEPT !.pc = "loop", !.v = Unwrap(start), !.last = Unwrap(end),
                                   !.step = step]
        ELSE LET single == ParseU8(part) IN
             IF ~IsSome(single) THEN ParseDone(P, Err(CronError_Validation("invalid number")))
             ELSE IF Unwrap(single) < min \/ Unwrap(single) > max
             THEN ParseDone(P, Err(CronError_Validation("value out of range")))
             ELSE [next EXCEPT !.out = Append(@, Unwrap(single))]

\* one iteration of `while v <= end { out.push(v); v = v.saturating_add(step) }`,
\* or its exit.  A vector of MaxPush values stands for every longer one.
LoopStep(P) ==
    IF P.v <= P.last
    THEN [P EXCEPT !.out = IF Len(@) < MaxPush THEN Append(@, P.v) ELSE @,
                   !.v = saturating_add(P.v, P.step)]
    ELSE [P EXCEPT !.pc = "field"]

\* parse_cron_expr from one cut to the next
ParseStep(P) ==
    IF P.pc = "loop" THEN LoopStep(P)
    ELSE IF P.parts = <<>> THEN FieldEnd(P)
    ELSE PartStep(P)

\* parse_cron_expr run to its return (it does not return when a while loop
\* does not end)
RECURSIVE ParseRun(_)
ParseRun(P) == IF P.pc = "done" THEN Unwrap(P.result) ELSE ParseRun(ParseStep(P))

parse_cron_expr(expr) == ParseRun(ParseBegin(expr))

----------------------------------------------------------------------------
(* tools/cron.rs: next_match.  A DateTime<Utc> with zero seconds is the    *)
(* record [date, hour, minute], date being the days since 1970-01-01; the  *)
(* calendar is the proleptic Gregorian one of chrono.                      *)

LIMIT_YEARS == 4

SecondsPerDay == 86400

\* NaiveDate -> (year, month, day)
Civil(date) ==
    LET z == date + 719468
        era == z \div 146097
        doe == z - era * 146097
        yoe == (doe - doe \div 1460 + doe \div 36524 - doe \div 146096) \div 365
        doy == doe - (365 * yoe + yoe \div 4 - yoe \div 100)
        mp == (5 * doy + 2) \div 153
        m == IF mp < 10 THEN mp + 3 ELSE mp - 9
    IN  [year |-> yoe + era * 400 + (IF m <= 2 THEN 1 ELSE 0),
         month |-> m,
         day |-> doy - (153 * mp + 2) \div 5 + 1]

\* NaiveDate::from_ymd_opt on a valid date
from_ymd(y, m, d) ==
    LET yy == IF m <= 2 THEN y - 1 ELSE y
        era == yy \div 400
        yoe == yy - era * 400
        doy == (153 * (IF m > 2 THEN m - 3 ELSE m + 9) + 2) \div 5 + d - 1
        doe == yoe * 365 + yoe \div 4 - yoe \div 100 + doy
    IN  era * 146097 + doe - 719468

\* weekday().num_days_from_sunday(): 1970-01-01 was a Thursday
num_days_from_sunday(date) == (date + 4) % 7

\* DateTime::from_timestamp on a whole minute, and DateTime::timestamp
from_timestamp(secs) ==
    [date |-> secs \div SecondsPerDay,
     hour |-> (secs % SecondsPerDay) \div 3600,
     minute |-> (secs % 3600) \div 60]

timestamp(dt) == dt.date * SecondsPerDay + dt.hour * 3600 + dt.minute * 60

Contains(seq, x) == \E i \in DOMAIN seq : seq[i] = x

\* iter().find(pred) on an ascending vector: Some(first element) or None
FindGe(seq, x) ==
    IF \E i \in DOMAIN seq : seq[i] >= x
    THEN Some(seq[CHOOSE i \in DOMAIN seq : seq[i] >= x /\ \A j \in 1..(i - 1) : seq[j] < x])
    ELSE None

FindGt(seq, x) == FindGe(seq, x + 1)

\* next_matching_month: the first day of the first matching month among the
\* 24 months from dt's on
RECURSIVE MonthSearch(_, _, _, _)
MonthSearch(expr, y, m, left) ==
    IF left = 0 THEN None
    ELSE IF Contains(expr.months, m) THEN Some([date |-> from_ymd(y, m, 1), hour |-> 0, minute |-> 0])
    ELSE IF m + 1 > 12 THEN MonthSearch(expr, y + 1, 1, left - 1)
    ELSE MonthSearch(expr, y, m + 1, left - 1)

next_matching_month(dt, expr) == MonthSearch(expr, Civil(dt.date).year, Civil(dt.date).month, 24)

\* next_hour_in_expr: (date, hour) of the next listed hour after dt's
next_hour_in_expr(dt, expr) ==
    LET h == FindGt(expr.hours, dt.hour) IN
    IF IsSome(h) THEN [date |-> dt.date, hour |-> Unwrap(h)]
    ELSE [date |-> dt.date + 1, hour |-> expr.hours[1]]

MatchDone(M, result) == [M EXCEPT !.pc = "matched", !.result = Some(result)]

\* next_match starting at the minute of after_unix itself
MatchBegin_inclusive(expr, after_unix) ==
    LET start_secs == (after_unix \div 60) * 60
        dt == from_timestamp(start_secs)
    IN  [pc |-> "match", expr |-> expr, after |-> after_unix, dt |-> dt,
         limit |-> Civil(dt.date).year + LIMIT_YEARS, result |-> None]

\* next_match up to its while loop
MatchBegin(expr, after_unix) ==
    LET start_secs == (after_unix \div 60 + 1) * 60
        dt == from_timestamp(start_secs)
    IN  [pc |-> "match", expr |-> expr, after |-> after_unix, dt |-> dt,
         limit |-> Civil(dt.date).year + LIMIT_YEARS, result |-> None]

NextDay(dt) == [date |-> dt.date + 1, hour |-> 0, minute |-> 0]

\* one iteration of `while dt.year() <= limit`, or the exit of the loop; a call
\* that has returned stays as it is
MatchStep(M) ==
    LET dt == M.dt
        expr == M.expr
        c == Civil(dt.date)
    IN  IF M.pc = "matched" THEN M
        ELSE IF c.year > M.limit THEN MatchDone(M, None)
        ELSE IF ~Contains(expr.months, c.month)
        THEN LET n == next_matching_month(dt, expr) IN
             IF IsSome(n) THEN [M EXCEPT !.dt = Unwrap(n)] ELSE MatchDone(M, None)
        ELSE IF ~Contains(expr.doms, c.day) \/ ~Contains(expr.dows, num_days_from_sunday(dt.date))
        THEN [M EXCEPT !.dt = NextDay(dt)]
        ELSE IF ~Contains(expr.hours, dt.hour)
        THEN LET h == FindGe(expr.hours, dt.hour) IN
             IF IsSome(h) THEN [M EXCEPT !.dt = [date |-> dt.date, hour |-> Unwrap(h), minute |-> 0]]
             ELSE [M EXCEPT !.dt = NextDay(dt)]
        ELSE IF ~Contains(expr.minutes, dt.minute)
        THEN LET m == FindGe(expr.minutes, dt.minute) IN
             IF IsSome(m) THEN [M EXCEPT !.dt = [date |-> dt.date, hour |-> dt.hour, minute |-> Unwrap(m)]]
             ELSE LET n == next_hour_in_expr(dt, expr) IN
                  [M EXCEPT !.dt = [date |-> n.date, hour |-> n.hour, minute |-> expr.minutes[1]]]
        ELSE MatchDone(M, Some(timestamp(dt)))

\* up to eight iterations of the loop
MatchSteps(M) ==
    MatchStep(MatchStep(MatchStep(MatchStep(MatchStep(MatchStep(MatchStep(MatchStep(M))))))))

\* next_match run to its return
RECURSIVE MatchRun(_)
MatchRun(M) == IF M.pc = "matched" THEN Unwrap(M.result) ELSE MatchRun(MatchSteps(M))

next_match(expr, after_unix) == MatchRun(MatchBegin(expr, after_unix))

---------------------------------------------------------------------------
(* main: the inbound queue, its producers and the session store            *)

\* capacity of the inbound channel in the model; main creates it with 64
InboundCap == 2
\* messages the chat transport delivers in one behaviour
TgBudget == 1
\* heartbeat ticks in one behaviour
HbTicks == 1
\* cron ticks in one behaviour (the last value of unix_now())
MaxNow == 2
\* iteration cap of a dispatcher turn in the model; agent::MAX_ITERATIONS is 20
DispMaxIterations == 2

\* chat id of the cron job that runs the agent (cron_runner tests)
CronChat == 999

\* telegram::InboundMsg (user_id is read by no consumer)
InboundMsg(chat_id, text, channel) ==
    [chat_id |-> chat_id, text |-> text, channel |-> channel]

\* mpsc::Sender::try_send on the inbound channel
try_send_inbound(ch, m) == IF Len(ch) < InboundCap THEN Append(ch, m) ELSE ch

\* tools::cron::Schedule
Once(at_unix) == [type |-> "once", n |-> at_unix]
Interval(every_seconds) == [type |-> "interval", n |-> every_seconds]
Cron(expr) == [type |-> "cron", expr |-> expr]

\* the clock when the store is created: Sun 2026-02-22 12:00:00 UTC
T0 == 1771761600

\* the clock is read at whole multiples of ClockStep seconds after T0
ClockStep == 60

MaxElapsed == 120
MaxJobs == 2
MaxOps == 3
MaxTicks == 2

MinIntervalSeconds == 60

\* "* * * * *", "0 0 31 2 *", "bad"
EveryMinute == <<"*", " ", "*", " ", "*", " ", "*", " ", "*">>
NeverMatches == <<"0", " ", "0", " ", "3", "1", " ", "2", " ", "*">>
BadExpr == <<"b", "a", "d">>

\* next_fire_after that gives a one-shot job its time whatever the clock says
next_fire_after_rearm(schedule, after_unix) ==
    IF schedule.type = "once" THEN Some(schedule.n)
    ELSE IF schedule.type = "interval" THEN Some(after_unix + schedule.n)
    ELSE LET e == parse_cron_expr(schedule.expr) IN
         IF e.ok THEN next_match(e.val, after_unix) ELSE None

\* Schedule::next_fire_after
next_fire_after(schedule, after_unix) ==
    IF schedule.type = "once"
    THEN IF schedule.n > after_unix THEN Some(schedule.n) ELSE None
    ELSE IF schedule.type = "interval" THEN Some(after_unix + schedule.n)
    ELSE LET e == parse_cron_expr(schedule.expr) IN
         IF e.ok THEN next_match(e.val, after_unix) ELSE None

\* tools::cron::CronJob as CronStore::add creates it
CronJob(id, message, action, schedule, chat_id, created_at, next_run) ==
    [id |-> id, message |-> message, action |-> action, schedule |-> schedule,
     enabled |-> TRUE, chat_id |-> chat_id, created_at |-> created_at, last_run |-> None,
     next_run |-> next_run]

\* the jobs of jobs.json when main starts: an interval job that runs the
\* agent and a one-shot reminder sent directly
InitialJobs ==
    <<CronJob("job-1", "Daily report", "agent", Interval(1), CronChat, 0, Some(1)),
      CronJob("job-2", "Reminder", "direct", Once(1), ChatId, 0, Some(1))>>

\* find_due that leaves out the jobs whose next-fire is now
find_due_strict(js, t) ==
    LET Due(j) == j.enabled /\ IsSome(j.next_run) /\ Unwrap(j.next_run) < t
    IN  SelectSeq(js, Due)

\* CronStore::find_due
find_due(js, t) ==
    LET Due(j) == j.enabled /\ IsSome(j.next_run) /\ Unwrap(j.next_run) <= t
    IN  SelectSeq(js, Due)

\* mark_fired that leaves a one-shot job enabled
mark_fired_armed(js, id, t) ==
    [i \in 1..Len(js) |->
        IF js[i].id # id THEN js[i]
        ELSE IF js[i].schedule.type = "once"
        THEN [js[i] EXCEPT !.last_run = Some(t), !.next_run = None]
        ELSE IF js[i].schedule.type = "interval"
        THEN [js[i] EXCEPT !.last_run = Some(t), !.next_run = Some(t + js[i].schedule.n)]
        ELSE [js[i] EXCEPT !.last_run = Some(t), !.next_run = next_fire_after(js[i].schedule, t)]]

\* CronStore::mark_fired
mark_fired(js, id, t) ==
    [i \in 1..Len(js) |->
        IF js[i].id # id THEN js[i]
        ELSE IF js[i].schedule.type = "once"
        THEN [js[i] EXCEPT !.last_run = Some(t), !.enabled = FALSE, !.next_run = None]
        ELSE IF js[i].schedule.type = "interval"
        THEN [js[i] EXCEPT !.last_run = Some(t), !.next_run = Some(t + js[i].schedule.n)]
        ELSE [js[i] EXCEPT !.last_run = Some(t), !.next_run = next_fire_after(js[i].schedule, t)]]

\* what the chat transport can fetch with one getUpdates call
TgBatches ==
    {<<InboundMsg(ChatId, "hello", "telegram")>>,
     <<InboundMsg(ChatId, "hello", "telegram"), InboundMsg(ChatId, "and more", "telegram")>>}

\* heartbeat::read_tasks: the bullet lists HEARTBEAT.md can hold
HbTaskLists == {<<>>, <<"Check weather">>, <<"Check weather", "Do thing">>}

\* agent::context::build_messages
build_messages(history, summary, user_message) ==
    <<Message("System", "You are iCrab." \o summary, None, None)>>
    \o history
    \o <<Message("User", user_message, None, None)>>

\* tools of the registry a dispatcher turn runs with in the model: one that
\* sends nothing, the message tool, and one whose result carries for_user
DispRegistry == {"read_file", "message", "notify"}

---------------------------------------------------------------------------
(* agent::session: the Session of a chat over the chat_history and         *)
(* chat_summary tables of memory::db.  `sessions` holds the chat_history   *)
(* rows of each chat in id order; `session` is                             *)
(*   live         : the Session object of the turn in progress, if any     *)
(*   chat_summary : the chat's row of the chat_summary table               *)
(*   added        : history, the messages the add_* calls pushed, in       *)
(*                  order, those aside that were dropped unsaved with      *)
(*                  their Session                                          *)
(*   cut          : history, truncate_history shortened the live history   *)
(*   ret          : the last load or save of the live Session, its result  *)
(*   pm           : the frame of process_message, see PmIdle               *)

\* cap of Session.history
MAX_HISTORY == 50
\* what summarize_if_needed keeps of the history
KEEP_RECENT_MESSAGES == 4
\* add_* calls per behaviour
MaxAdds == 55

role_to_str(role) ==
    CASE role = "System" -> "system"
      [] role = "User" -> "user"
      [] role = "Assistant" -> "assistant"
      [] role = "Tool" -> "tool"

str_to_role(s) ==
    CASE s = "system" -> "System"
      [] s = "assistant" -> "Assistant"
      [] s = "tool" -> "Tool"
      [] OTHER -> "User"

\* serde_json::to_string of a Vec<ToolCall>, and serde_json::from_str of it
to_json(tool_calls) == [json |-> tool_calls]
from_json(s) == s.json

\* memory::db::StoredMessage
StoredMessage(role, content, tool_call_id, tool_calls) ==
    [role |-> role, content |-> content, tool_call_id |-> tool_call_id, tool_calls |-> tool_calls]

message_to_stored(msg) ==
    StoredMessage(role_to_str(msg.role), msg.content, msg.tool_call_id,
                  IF IsSome(msg.tool_calls) THEN Some(to_json(Unwrap(msg.tool_calls))) ELSE None)

stored_to_message(stored) ==
    Message(str_to_role(stored.role), stored.content, stored.tool_call_id,
            IF IsSome(stored.tool_calls) THEN Some(from_json(Unwrap(stored.tool_calls))) ELSE None)

\* usize::min
MinOf(a, b) == IF a < b THEN a ELSE b

\* iter().map(f).collect()
MapSeq(f(_), seq) == [i \in 1..Len(seq) |-> f(seq[i])]

\* the last n elements of seq
LastN(seq, n) == SubSeq(seq, Len(seq) - n + 1, Len(seq))

\* a history that keeps its oldest messages
cap_history_oldest(history) ==
    IF Len(history) > MAX_HISTORY THEN SubSeq(history, 1, MAX_HISTORY) ELSE history

cap_history(history) ==
    IF Len(history) > MAX_HISTORY THEN LastN(history, MAX_HISTORY) ELSE history

truncate_history(history, keep) ==
    IF Len(history) > keep THEN LastN(history, keep) ELSE history

\* struct Session, its db handle and session_id aside
Session(history, pending_inserts, summary, chat_id) ==
    [history |-> history, pending_inserts |-> pending_inserts, summary |-> summary,
     chat_id |-> chat_id]

\* process_message's frame before the first turn.  History: `before` is
\* what the chat had in storage when the turn began, `loaded` the
\* Session as Session::load returned it, `sum` the summariser's report
\* if it was called, `loop` what run_agent_loop returned with the messages
\* it exchanged with the model and the tools, `result` what process_message
\* returned, `folded` the messages summarised by turns that saved, `at`
\* the rows in storage when the last of those turns ended
PmIdle ==
    [pc |-> "idle", user |-> None, messages |-> <<>>, before |-> None, loaded |-> None,
     sum |-> None, loop |-> None, result |-> None, folded |-> {}, at |-> 0]

\* no Session loaded, an empty chat_summary table
SessionIdle ==
    [live |-> None, chat_summary |-> "", added |-> <<>>, cut |-> FALSE, ret |-> None,
     pm |-> PmIdle]

\* no cron expression is being evaluated
ParserIdle == [pc |-> "idle"]

\* the dispatcher and the heartbeat runner before the first message
DispatcherQuiet ==
    /\ inbound = <<>>
    /\ last_chat_id = 0
    /\ disp = [pc |-> "recv", msg |-> None, reply |-> "", result |-> None, pending |-> <<>>]
    /\ delivered = FALSE
    /\ sessions = EmptyMap
    /\ hb = [ticks |-> HbTicks, chat_id |-> 0, pending |-> <<>>]
    /\ now = [t |-> 0, due |-> <<>>]
    /\ parser = ParserIdle
    /\ session = SessionIdle
    /\ log = [enq |-> <<>>, served |-> <<>>, calls |-> <<>>, sent |-> <<>>, outcomes |-> <<>>,
              ticks |-> <<>>, emit |-> <<>>]

\* the dispatcher and its producers before the first message, the cron
\* store aside
DispatcherIdle == DispatcherQuiet /\ tg = [budget |-> TgBudget, pending |-> <<>>]

\* the state main is in when it enters its dispatcher loop, with the jobs
\* CronStore::load found in jobs.json
DispatcherInit ==
    /\ DispatcherIdle
    /\ jobs = InitialJobs
    /\ cron = [clock |-> 0, file |-> InitialJobs, next_id |-> Len(InitialJobs) + 1, calls |-> 0,
               ret |-> None]

---------------------------------------------------------------------------
(* The subagent manager: actions                                          *)

\* the dispatcher waits on its queue: no turn is running
IdleTurn == [LoopNew(<<>>, MainRegistry, DispatcherCtx, TurnMaxIterations) EXCEPT !.pc = "idle"]

ManagerInit(budget, iterations) ==
    /\ max_iterations = iterations
    /\ spawn_budget = budget
    /\ next_id = 1
    /\ tasks = EmptyMap
    /\ clock = 0
    /\ spc = [c \in Threads |-> "idle"]
    /\ sid = [c \in Threads |-> 0]
    /\ runner = EmptyMap
    /\ turn = IdleTurn
    /\ outbound = <<>>
    /\ spawned = <<>>
    /\ cancels = [id \in TaskIds |-> 0]

InitManager(budget, iterations) == ManagerInit(budget, iterations) /\ DispatcherInit

\* SpawnTool::execute: the text it returns for the model (no label given)
SpawnStarted(task_id) ==
    "Subagent 'task' started (id: " \o task_id \o "). It will report back when done."

\* the dispatcher turn is inside SpawnTool::execute
TurnInSpawnTool == turn.pc = "tool" /\ Head(turn.pending).name = "spawn"

\* spawn reading next_id without advancing it
SpawnFetch_reuse(c) ==
    /\ spc[c] = "idle"
    /\ IF c = "turn" THEN TurnInSpawnTool /\ spawn_budget' = spawn_budget
       ELSE spawn_budget > 0 /\ spawn_budget' = spawn_budget - 1
    /\ sid' = [sid EXCEPT ![c] = next_id]
    /\ spc' = [spc EXCEPT ![c] = "fetched"]
    /\ UNCHANGED <<dispatcher, max_iterations, next_id, tasks, clock, runner, turn, outbound, spawned,
                   cancels>>

\* spawn: let id_num = self.next_id.fetch_add(1, Relaxed)
SpawnFetch(c) ==
    /\ spc[c] = "idle"
    /\ IF c = "turn" THEN TurnInSpawnTool /\ spawn_budget' = spawn_budget
       ELSE spawn_budget > 0 /\ spawn_budget' = spawn_budget - 1
    /\ sid' = [sid EXCEPT ![c] = next_id]
    /\ next_id' = next_id + 1
    /\ spc' = [spc EXCEPT ![c] = "fetched"]
    /\ UNCHANGED <<dispatcher, max_iterations, tasks, clock, runner, turn, outbound, spawned, cancels>>

\* spawn: created_at: Instant::now(); st.tasks.insert(task_id, entry)
SpawnInsert(c) ==
    /\ spc[c] = "fetched"
    /\ \E t \in {clock, clock + 1} :
          /\ clock' = t
          /\ tasks' = Insert(tasks, TaskId(sid[c]), TaskEntry(TaskId(sid[c]), t))
    /\ spc' = [spc EXCEPT ![c] = "inserted"]
    /\ UNCHANGED <<dispatcher, max_iterations, spawn_budget, next_id, sid, runner, turn, outbound,
                   spawned, cancels>>

\* spawn: let handle = tokio::spawn(run_subagent(..))
SpawnLaunch(c) ==
    /\ spc[c] = "inserted"
    /\ runner' = Insert(runner, TaskId(sid[c]),
                        LoopNew(SubagentMessages, SubRegistry, DispatcherCtx, max_iterations))
    /\ spc' = [spc EXCEPT ![c] = "launched"]
    /\ UNCHANGED <<dispatcher, max_iterations, spawn_budget, next_id, tasks, clock, sid, turn, outbound,
                   spawned, cancels>>

\* spawn awaiting the JoinHandle of the task it launched before it returns
SpawnStore_join(c) ==
    /\ spc[c] = "launched"
    /\ runner[TaskId(sid[c])].pc \in {"done", "aborted", "panicked"}
    /\ tasks' = IF TaskId(sid[c]) \in DOMAIN tasks
                THEN [tasks EXCEPT ![TaskId(sid[c])].abort_handle = TRUE]
                ELSE tasks
    /\ spawned' = Append(spawned, TaskId(sid[c]))
    /\ spc' = [spc EXCEPT ![c] = "idle"]
    /\ turn' = IF c = "turn"
               THEN OnTool(turn, ToolResult_async(SpawnStarted(TaskId(sid[c]))))
               ELSE turn
    /\ UNCHANGED <<dispatcher, max_iterations, spawn_budget, next_id, clock, sid, runner, outbound,
                   cancels>>

\* spawn: e.abort_handle = Some(handle.abort_handle()); task_id
\* (for the turn: SpawnTool::execute returns ToolResult::async_)
SpawnStore(c) ==
    /\ spc[c] = "launched"
    /\ tasks' = IF TaskId(sid[c]) \in DOMAIN tasks
                THEN [tasks EXCEPT ![TaskId(sid[c])].abort_handle = TRUE]
                ELSE tasks
    /\ spawned' = Append(spawned, TaskId(sid[c]))
    /\ spc' = [spc EXCEPT ![c] = "idle"]
    /\ turn' = IF c = "turn"
               THEN OnTool(turn, ToolResult_async(SpawnStarted(TaskId(sid[c]))))
               ELSE turn
    /\ UNCHANGED <<dispatcher, max_iterations, spawn_budget, next_id, clock, sid, runner, outbound,
                   cancels>>

\* SpawnTool::execute: missing or empty 'task' argument
SpawnToolError ==
    /\ TurnInSpawnTool /\ spc["turn"] = "idle"
    /\ turn' = OnTool(turn, ToolResult_error("missing or empty 'task' argument"))
    /\ UNCHANGED <<dispatcher, max_iterations, spawn_budget, next_id, tasks, clock, spc, sid, runner,
                   outbound, spawned, cancels>>

\* run_subagent after a poll: a loop that returned reports to the manager
RunnerStep(id, L) ==
    /\ runner' = [runner EXCEPT ![id] = L]
    /\ IF L.pc = "done"
       THEN LET r == Unwrap(L.result)
            IN  tasks' \in complete_task(tasks, id,
                                         IF r.ok THEN "Completed" ELSE "Failed", Some(r.val))
       ELSE tasks' = tasks

\* the tokio task is polled for the first time
RunnerStart(id) ==
    /\ id \in DOMAIN runner /\ runner[id].pc = "init"
    /\ RunnerStep(id, LoopHead(runner[id]))
    /\ UNCHANGED <<dispatcher, max_iterations, spawn_budget, next_id, clock, spc, sid, turn, outbound,
                   spawned, cancels>>

\* the subagent's chat call returns
RunnerLlm(id, resp) ==
    /\ id \in DOMAIN runner /\ runner[id].pc = "llm"
    /\ RunnerStep(id, OnLlm(runner[id], resp))
    /\ UNCHANGED <<dispatcher, max_iterations, spawn_budget, next_id, clock, spc, sid, turn, outbound,
                   spawned, cancels>>

\* the subagent's tool returns
RunnerTool(id) ==
    /\ id \in DOMAIN runner /\ runner[id].pc = "tool"
    /\ \E o \in ToolOutcomes(runner[id], Head(runner[id].pending).name, outbound) :
          /\ outbound' = IF Forwards(runner[id], o.result)
                         THEN try_send(o.outbound, ForUserMsg(runner[id], o.result))
                         ELSE o.outbound
          /\ RunnerStep(id, OnTool([runner[id] EXCEPT !.sent = @ + o.sends], o.result))
    /\ UNCHANGED <<dispatcher, max_iterations, spawn_budget, next_id, clock, spc, sid, turn, spawned,
                   cancels>>

\* the subagent's tool panics: tokio ends the task, nobody holds its JoinHandle
RunnerPanic(id) ==
    /\ id \in DOMAIN runner /\ runner[id].pc = "tool"
    /\ runner' = [runner EXCEPT ![id].pc = "panicked"]
    /\ UNCHANGED <<dispatcher, max_iterations, spawn_budget, next_id, tasks, clock, spc, sid, turn,
                   outbound, spawned, cancels>>

\* SubagentManager::cancel(task_id), from any thread
Cancel(id) ==
    LET r == cancel(tasks, id)
    IN  /\ tasks' = r.tasks
        /\ cancels' = IF r.ret THEN [cancels EXCEPT ![id] = @ + 1] ELSE cancels
        /\ runner' = IF r.abort THEN [runner EXCEPT ![id] = abort(@)] ELSE runner
        /\ UNCHANGED <<dispatcher, max_iterations, spawn_budget, next_id, clock, spc, sid, turn, outbound,
                       spawned>>

\* SubagentManager::complete_task(task_id, status, result), from any thread
CompleteTask(id, status, result) ==
    /\ tasks' \in complete_task(tasks, id, status, result)
    /\ UNCHANGED <<dispatcher, max_iterations, spawn_budget, next_id, clock, spc, sid, runner, turn,
                   outbound, spawned, cancels>>

\* the dispatcher takes the next message from its queue
TurnNext ==
    /\ turn.pc \in {"idle", "done"}
    /\ turn' = LoopNew(TurnMessages, MainRegistry, DispatcherCtx, TurnMaxIterations)
    /\ UNCHANGED <<dispatcher, max_iterations, spawn_budget, next_id, tasks, clock, spc, sid, runner,
                   outbound, spawned, cancels>>

\* the dispatcher turn enters run_agent_loop
TurnStart ==
    /\ turn.pc = "init"
    /\ turn' = LoopHead(turn)
    /\ UNCHANGED <<dispatcher, max_iterations, spawn_budget, next_id, tasks, clock, spc, sid, runner,
                   outbound, spawned, cancels>>

\* the turn's chat call returns; a response that asks for the spawn tool
\* uses up one of the spawn calls of the behaviour
TurnLlm(resp) ==
    /\ turn.pc = "llm"
    /\ IF resp.tool_calls # <<>>
       THEN spawn_budget > 0 /\ spawn_budget' = spawn_budget - 1
       ELSE spawn_budget' = spawn_budget
    /\ turn' = OnLlm(turn, resp)
    /\ UNCHANGED <<dispatcher, max_iterations, next_id, tasks, clock, spc, sid, runner, outbound,
                   spawned, cancels>>

\* the transport's sender task takes a message off the outbound channel
OutboundRecv ==
    /\ outbound # <<>>
    /\ outbound' = Tail(outbound)
    /\ UNCHANGED <<dispatcher, max_iterations, spawn_budget, next_id, tasks, clock, spc, sid, runner,
                   turn, spawned, cancels>>

---------------------------------------------------------------------------
(* main: the dispatcher loop and the producers of the inbound channel.     *)
(* disp.pc is the dispatcher's position: "recv" waiting in recv().await,   *)
(* "turn" inside process_message / process_heartbeat_message, "reply" at   *)
(* the send of the final reply.  log is a history variable: the messages   *)
(* accepted by the inbound channel, the messages the dispatcher took, the  *)
(* tool results of its turns and every send on the outbound channel.       *)

manager == <<max_iterations, spawn_budget, next_id, tasks, clock, spc, sid, runner,
             spawned, cancels>>

\* format!("Error: {}.", e) in the dispatcher
ErrorReply(e) == "Error: " \o e \o "."

\* Display of AgentError::Session(SessionError::Db(e))
AgentErrorSession(e) == "agent session: session db: " \o e

\* number of the turn the dispatcher is in
TurnNo == Len(log.served)

\* one send on the outbound channel: its turn (0 outside a turn), who sent
\* it, the tool call it belongs to, the message, whether it was accepted
Sent(n, kind, call, m, ok) == [turn |-> n, kind |-> kind, call |-> call, msg |-> m, ok |-> ok]

\* the turn's ToolCtx
TurnCtx(msg) == ToolCtx(Some(msg.chat_id), Some(msg.channel), TRUE)

\* what registry.execute returns in a dispatcher turn, with the tool's own
\* sends and whether the tool set ctx.delivered
DispToolOutcomes(L, name, ch) ==
    IF name = "notify"
    THEN {[result |-> ToolResult_user("Reminder set"), outbound |-> ch, sends |-> 0],
          [result |-> [ToolResult_user("Reminder set") EXCEPT !.silent = TRUE],
           outbound |-> ch, sends |-> 0]}
    ELSE ToolOutcomes(L, name, ch)

\* a turn that saves the session whatever the channel
DispStep_save(L, save_ok) ==
    /\ turn' = L
    /\ IF L.pc # "done"
       THEN UNCHANGED <<disp, sessions>>
       ELSE LET msg == Unwrap(disp.msg)
                r == Unwrap(L.result)
            IN  /\ disp' = [disp EXCEPT !.pc = "reply", !.result = Some(r), !.pending = <<>>,
                                        !.reply = IF r.ok THEN r.val ELSE ErrorReply(r.val)]
                /\ sessions' = IF r.ok /\ msg.chat_id \in DOMAIN sessions
                               THEN [sessions EXCEPT ![msg.chat_id] =
                                        @ \o <<Message("Assistant", r.val, None, None)>>]
                               ELSE sessions

\* the end of process_message / process_heartbeat_message once the loop has
\* moved to L; save_ok: whether session.save() succeeds
DispStep(L, save_ok) ==
    /\ turn' = L
    /\ IF L.pc # "done"
       THEN UNCHANGED <<disp, sessions>>
       ELSE LET msg == Unwrap(disp.msg)
                r == Unwrap(L.result)
            IN  IF ~r.ok
                THEN /\ disp' = [disp EXCEPT !.pc = "reply", !.reply = ErrorReply(r.val),
                                             !.result = Some(r), !.pending = <<>>]
                     /\ UNCHANGED sessions
                ELSE IF msg.channel = "heartbeat"
                THEN /\ disp' = [disp EXCEPT !.pc = "reply", !.reply = r.val,
                                             !.result = Some(r)]
                     /\ UNCHANGED sessions
                ELSE IF save_ok
                THEN /\ sessions' = [sessions EXCEPT ![msg.chat_id] =
                            @ \o disp.pending \o <<Message("Assistant", r.val, None, None)>>]
                     /\ disp' = [disp EXCEPT !.pc = "reply", !.reply = r.val,
                                             !.result = Some(r), !.pending = <<>>]
                ELSE /\ disp' = [disp EXCEPT !.pc = "reply", !.pending = <<>>,
                            !.result = Some(Err(AgentErrorSession("disk full"))),
                            !.reply = ErrorReply(AgentErrorSession("disk full"))]
                     /\ UNCHANGED sessions

\* a dispatcher that takes the newest message of the queue
DispRecv_last ==
    /\ disp.pc = "recv" /\ inbound # <<>>
    /\ inbound' = SubSeq(inbound, 1, Len(inbound) - 1)
    /\ disp' = [disp EXCEPT !.pc = "reply", !.msg = Some(inbound[Len(inbound)]),
                            !.reply = "Done.", !.result = Some(Ok("Done."))]
    /\ log' = [log EXCEPT !.served = Append(@, inbound[Len(inbound)])]
    /\ UNCHANGED <<manager, cron, parser, session, turn, outbound, last_chat_id, delivered, sessions, tg, hb, jobs, now>>

\* a dispatcher that records the chat of every message, heartbeats included
DispRecv_store ==
    /\ disp.pc = "recv" /\ inbound # <<>>
    /\ inbound' = Tail(inbound)
    /\ last_chat_id' = Head(inbound).chat_id
    /\ disp' = [disp EXCEPT !.pc = "reply", !.msg = Some(Head(inbound)),
                            !.reply = "Done.", !.result = Some(Ok("Done."))]
    /\ log' = [log EXCEPT !.served = Append(@, Head(inbound))]
    /\ UNCHANGED <<manager, cron, parser, session, turn, outbound, delivered, sessions, tg, hb, jobs, now>>

\* inbound_rx.recv() returns msg and the turn starts; load_ok: whether
\* Session::load succeeds
DispRecv ==
    /\ disp.pc = "recv" /\ inbound # <<>>
    /\ LET msg == Head(inbound) IN
       /\ inbound' = Tail(inbound)
       /\ last_chat_id' = IF msg.channel # "heartbeat" THEN msg.chat_id ELSE last_chat_id
       /\ delivered' = FALSE
       /\ log' = [log EXCEPT !.served = Append(@, msg)]
       /\ IF msg.channel = "heartbeat"
          THEN /\ turn' = LoopHead(LoopNew(build_messages(<<>>, "", msg.text),
                                           DispRegistry, TurnCtx(msg), DispMaxIterations))
               /\ disp' = [pc |-> "turn", msg |-> Some(msg), reply |-> "", result |-> None,
                            pending |-> <<>>]
               /\ UNCHANGED sessions
          ELSE \E load_ok \in BOOLEAN :
               IF load_ok
               THEN LET history == IF msg.chat_id \in DOMAIN sessions
                                   THEN sessions[msg.chat_id] ELSE <<>>
                    IN  /\ sessions' = sessions @@ [c \in {msg.chat_id} |-> <<>>]
                        /\ turn' = LoopHead(LoopNew(build_messages(history, "", msg.text),
                                        DispRegistry, TurnCtx(msg), DispMaxIterations))
                        /\ disp' = [pc |-> "turn", msg |-> Some(msg), reply |-> "",
                                    result |-> None,
                                    pending |-> <<Message("User", msg.text, None, None)>>]
               ELSE /\ disp' = [pc |-> "reply", msg |-> Some(msg), pending |-> <<>>,
                                result |-> Some(Err(AgentErrorSession("disk full"))),
                                reply |-> ErrorReply(AgentErrorSession("disk full"))]
                    /\ UNCHANGED <<turn, sessions>>
    /\ UNCHANGED <<manager, cron, parser, session, outbound, tg, hb, jobs, now>>

\* llm.chat().await of the turn returns resp
DispLlm(resp) ==
    /\ disp.pc = "turn" /\ turn.pc = "llm"
    /\ \E save_ok \in BOOLEAN : DispStep(OnLlm(turn, resp), save_ok)
    /\ UNCHANGED <<manager, cron, parser, session, outbound, inbound, last_chat_id, delivered, tg, hb, jobs, now, log>>

\* registry.execute().await of the turn's current call returns
DispTool ==
    /\ disp.pc = "turn" /\ turn.pc = "tool"
    /\ LET call == Head(turn.pending) IN
       \E o \in DispToolOutcomes(turn, call.name, outbound) :
          LET fwd == Forwards(turn, o.result)
              own == IF o.sends = 0 THEN <<>>
                     ELSE <<Sent(TurnNo, "message", call.id,
                                 OutboundMsg(Unwrap(turn.ctx.chat_id), "result",
                                             Unwrap(turn.ctx.channel)),
                                 o.outbound # outbound)>>
              loop == IF fwd
                      THEN <<Sent(TurnNo, "for_user", call.id, ForUserMsg(turn, o.result),
                                  Len(o.outbound) < OutboundCap)>>
                      ELSE <<>>
          IN  /\ outbound' = IF fwd THEN try_send(o.outbound, ForUserMsg(turn, o.result))
                             ELSE o.outbound
              /\ delivered' = (delivered \/ o.result = ToolResult_silent("sent"))
              /\ log' = [log EXCEPT !.sent = @ \o own \o loop,
                                    !.calls = Append(@, [turn |-> TurnNo, call |-> call.id,
                                                         result |-> o.result])]
              /\ \E save_ok \in BOOLEAN :
                    DispStep(OnTool([turn EXCEPT !.sent = @ + o.sends], o.result), save_ok)
    /\ UNCHANGED <<manager, cron, parser, session, inbound, last_chat_id, tg, hb, jobs, now>>

\* a dispatcher that returns to recv() without sending
DispReply_drop ==
    /\ disp.pc = "reply"
    /\ log' = [log EXCEPT !.outcomes = Append(@, Unwrap(disp.result))]
    /\ disp' = [disp EXCEPT !.pc = "recv", !.msg = None, !.reply = "", !.result = None]
    /\ UNCHANGED <<manager, cron, parser, session, turn, outbound, inbound, last_chat_id, delivered, sessions, tg, hb,
                   jobs, now>>

\* the dispatcher's outbound_tx.send(final reply).await, or the continue
\* that skips it
DispReply ==
    /\ disp.pc = "reply"
    /\ LET msg == Unwrap(disp.msg) IN
       IF msg.channel = "heartbeat" /\ msg.chat_id = 0
       THEN /\ log' = [log EXCEPT !.outcomes = Append(@, Unwrap(disp.result))]
            /\ UNCHANGED outbound
       ELSE /\ Len(outbound) < OutboundCap
            /\ outbound' = Append(outbound, OutboundMsg(msg.chat_id, disp.reply, msg.channel))
            /\ log' = [log EXCEPT !.outcomes = Append(@, Unwrap(disp.result)),
                                  !.sent = Append(@, Sent(TurnNo, "final", "",
                            OutboundMsg(msg.chat_id, disp.reply, msg.channel), TRUE))]
    /\ disp' = [disp EXCEPT !.pc = "recv", !.msg = None, !.reply = "", !.result = None]
    /\ UNCHANGED <<manager, cron, parser, session, turn, inbound, last_chat_id, delivered, sessions, tg, hb, jobs, now>>

\* telegram::poll_loop: getUpdates returns a batch
TgUpdates(batch) ==
    /\ tg.pending = <<>> /\ Len(batch) <= tg.budget
    /\ tg' = [budget |-> tg.budget - Len(batch), pending |-> batch]
    /\ UNCHANGED <<manager, cron, parser, session, turn, outbound, inbound, last_chat_id, disp, delivered, sessions, hb,
                   jobs, now, log>>

\* telegram::poll_loop: inbound_tx.send(msg).await completes
TgSend ==
    /\ tg.pending # <<>> /\ Len(inbound) < InboundCap
    /\ inbound' = Append(inbound, Head(tg.pending))
    /\ log' = [log EXCEPT !.enq = Append(@, Head(tg.pending))]
    /\ tg' = [tg EXCEPT !.pending = Tail(@)]
    /\ UNCHANGED <<manager, cron, parser, session, turn, outbound, last_chat_id, disp, delivered, sessions, hb, jobs, now>>

\* heartbeat runner: a tick reads the tasks and the last known chat
HbTick(task_list) ==
    /\ hb.pending = <<>> /\ hb.ticks > 0
    /\ hb' = [ticks |-> hb.ticks - 1,
              chat_id |-> IF task_list = <<>> THEN hb.chat_id ELSE last_chat_id,
              pending |-> task_list]
    /\ UNCHANGED <<manager, cron, parser, session, turn, outbound, inbound, last_chat_id, disp, delivered, sessions, tg,
                   jobs, now, log>>

\* heartbeat runner: inbound_tx.send(msg).await completes
HbSend ==
    /\ hb.pending # <<>> /\ Len(inbound) < InboundCap
    /\ LET msg == InboundMsg(hb.chat_id, "[Heartbeat Task] " \o Head(hb.pending), "heartbeat") IN
       /\ inbound' = Append(inbound, msg)
       /\ log' = [log EXCEPT !.enq = Append(@, msg)]
    /\ hb' = [hb EXCEPT !.pending = Tail(@)]
    /\ UNCHANGED <<manager, cron, parser, session, turn, outbound, last_chat_id, disp, delivered, sessions, tg, jobs, now>>

\* cron_runner::tick_loop: a tick at the next second starts tick_once, which
\* reads the due jobs
CronTick ==
    /\ now.due = <<>> /\ now.t < MaxNow
    /\ now' = [t |-> now.t + 1, due |-> find_due(jobs, now.t + 1)]
    /\ UNCHANGED <<manager, cron, parser, session, turn, outbound, inbound, last_chat_id, disp, delivered, sessions, tg,
                   hb, jobs, log>>

\* the InboundMsg tick_once builds for an Agent job
CronAgentMsg(job) ==
    [chat_id |-> job.chat_id, user_id |-> 0, text |-> job.message, channel |-> "cron"]

\* a log entry: tick number `tick` handed `msg` for `job` to try_send on the
\* inbound or the outbound channel, which took it (ok) or was full
Emit(tick, job, kind, msg, ok) == [tick |-> tick, job |-> job, kind |-> kind, msg |-> msg, ok |-> ok]

\* cron_runner::tick_once: the body of its loop for the next due job
CronFire ==
    /\ now.due # <<>>
    /\ LET job == Head(now.due) IN
       /\ IF job.action = "agent"
          THEN LET msg == InboundMsg(job.chat_id, job.message, "cron") IN
               /\ inbound' = try_send_inbound(inbound, msg)
               /\ log' = [log EXCEPT !.enq = IF Len(inbound) < InboundCap
                                               THEN Append(@, msg) ELSE @,
                                     !.emit = Append(@, Emit(Len(log.ticks), job, "inbound",
                                                             CronAgentMsg(job),
                                                             Len(inbound) < InboundCap))]
               /\ UNCHANGED outbound
          ELSE LET msg == OutboundMsg(job.chat_id, job.message, "cron") IN
               /\ outbound' = try_send(outbound, msg)
               /\ log' = [log EXCEPT !.sent = Append(@, Sent(0, "cron", job.id, msg,
                                                           Len(outbound) < OutboundCap)),
                                     !.emit = Append(@, Emit(Len(log.ticks), job, "outbound", msg,
                                                             Len(outbound) < OutboundCap))]
               /\ UNCHANGED inbound
       /\ jobs' = mark_fired(jobs, job.id, now.t)
       /\ cron' = [cron EXCEPT !.file = jobs']
       /\ now' = [now EXCEPT !.due = Tail(@)]
    /\ UNCHANGED <<manager, parser, session, turn, last_chat_id, disp, delivered, sessions, tg, hb>>

\* telegram::send_loop takes the next outbound message
SendLoop ==
    /\ outbound # <<>>
    /\ outbound' = Tail(outbound)
    /\ UNCHANGED <<manager, turn, dispatcher>>

---------------------------------------------------------------------------
(* SpecDisp: main after start-up.  The chat transport, the heartbeat       *)
(* runner and the cron runner fill the inbound channel, the dispatcher     *)
(* serves it, and the send loop drains the outbound channel.               *)

\* the task lists of the heartbeat ticks of SpecDisp
DispTaskLists == {<<>>, <<"Check weather">>}

DispResponses ==
    {LlmErr("500"),
     LlmOk("Done.", <<>>),
     LlmOk("", <<ToolCall("call_1", "notify", TRUE), ToolCall("call_2", "notify", TRUE)>>),
     LlmOk("", <<ToolCall("call_1", "message", TRUE), ToolCall("call_2", "read_file", TRUE)>>)}

InitDisp == InitManager(0, SubagentMaxIterations)

NextDisp ==
    \/ DispRecv
    \/ \E resp \in DispResponses : DispLlm(resp)
    \/ DispTool
    \/ DispReply
    \/ \E batch \in TgBatches : TgUpdates(batch)
    \/ TgSend
    \/ \E task_list \in DispTaskLists : HbTick(task_list)
    \/ HbSend
    \/ SendLoop

SpecDisp == InitDisp /\ [][NextDisp]_vars

---------------------------------------------------------------------------
(* SpecQueue: the inbound channel with all three producers; the turns of   *)
(* the dispatcher call no tools.                                           *)

QueueResponses == {LlmErr("500"), LlmOk("Done.", <<>>)}

NextQueue ==
    \/ DispRecv
    \/ \E resp \in QueueResponses : DispLlm(resp)
    \/ DispReply
    \/ \E batch \in TgBatches : TgUpdates(batch)
    \/ TgSend
    \/ \E task_list \in HbTaskLists : HbTick(task_list)
    \/ HbSend
    \/ CronTick
    \/ CronFire
    \/ SendLoop

SpecQueue == InitDisp /\ [][NextQueue]_vars

---------------------------------------------------------------------------
(* SpecMgr: the manager driven through its public API by one thread that  *)
(* spawns and by cancel and complete_task calls from any thread; the       *)
(* subagents answer with a final reply or fail.                            *)

MgrResponses == {LlmErr("500"), LlmOk(" done ", <<>>)}

InitMgr == InitManager(MaxTasks, 1)

NextMgr ==
    \/ SpawnFetch("api")
    \/ SpawnInsert("api")
    \/ SpawnLaunch("api")
    \/ SpawnStore("api")
    \/ \E id \in TaskIds : RunnerStart(id)
    \/ \E id \in TaskIds, resp \in MgrResponses : RunnerLlm(id, resp)
    \/ \E id \in TaskIds : Cancel(id)
    \/ \E id \in TaskIds, c \in ExternalCompletions : CompleteTask(id, c[1], c[2])

SpecMgr == InitMgr /\ [][NextMgr]_vars

---------------------------------------------------------------------------
(* SpecRun: the dispatcher turn and an API thread spawn concurrently, the  *)
(* subagents run the whole loop with tools, and any thread may cancel.     *)

InitRun == InitManager(RunTasks, SubagentMaxIterations)

NextRun ==
    \/ \E c \in Threads : SpawnFetch(c)
    \/ \E c \in Threads : SpawnInsert(c)
    \/ \E c \in Threads : SpawnLaunch(c)
    \/ \E c \in Threads : SpawnStore(c)
    \/ SpawnToolError
    \/ \E id \in TaskIds : RunnerStart(id)
    \/ \E id \in TaskIds, resp \in RunnerResponses : RunnerLlm(id, resp)
    \/ \E id \in TaskIds : RunnerTool(id)
    \/ \E id \in TaskIds : RunnerPanic(id)
    \/ \E id \in TaskIds : Cancel(id)
    \/ TurnStart
    \/ \E resp \in TurnResponses : TurnLlm(resp)
    \/ TurnNext
    \/ OutboundRecv

SpecRun == InitRun /\ [][NextRun]_vars

---------------------------------------------------------------------------
(* SpecLoop: one subagent, spawned through the API on a manager built with *)
(* iteration cap k, runs run_agent_loop against every answer of the model. *)
(* LLM and tool calls return, and the runtime polls a task that is ready.  *)

LoopTask == TaskId(1)

\* the shapes of tool call the loop tells apart: a registered tool with
\* arguments that parse, unparsable arguments, an unregistered name
LoopCalls ==
    {ToolCall("call_1", "read_file", TRUE),
     ToolCall("call_2", "read_file", FALSE),
     ToolCall("call_3", "no_such_tool", TRUE)}

LoopResponses ==
    {LlmErr("500"), LlmOk(" done ", <<>>), LlmOk(" ", <<>>)}
    \cup {LlmOk("", calls) : calls \in UNION {[1..n -> LoopCalls] : n \in 1..MaxCalls}}

\* the state spawn leaves when it returns subagent-1
InitLoop ==
    /\ max_iterations \in 0..MaxK
    /\ spawn_budget = 0
    /\ next_id = 2
    /\ tasks = Insert(EmptyMap, LoopTask, [TaskEntry(LoopTask, 0) EXCEPT !.abort_handle = TRUE])
    /\ clock = 0
    /\ spc = [c \in Threads |-> "idle"]
    /\ sid = [c \in Threads |-> IF c = "api" THEN 1 ELSE 0]
    /\ runner = Insert(EmptyMap, LoopTask,
                       LoopNew(SubagentMessages, SubRegistry, DispatcherCtx, max_iterations))
    /\ turn = IdleTurn
    /\ outbound = <<>>
    /\ spawned = <<LoopTask>>
    /\ cancels = [id \in TaskIds |-> 0]
    /\ DispatcherInit

\* the steps of the subagent's tokio task
NextLoop ==
    \/ RunnerStart(LoopTask)
    \/ \E resp \in LoopResponses : RunnerLlm(LoopTask, resp)
    \/ RunnerTool(LoopTask)

SpecLoop == InitLoop /\ [][NextLoop]_vars /\ WF_vars(NextLoop)

---------------------------------------------------------------------------
(* SpecParse: one call of parse_cron_expr on an expression of the tests or *)
(* on a malformed one; a loop that can run does run.                       *)

\* "* * * * *", "0 9 1 1 0", "0,30 9,17 * * *", "0 9 * * 1-5", "*/15 * * * *",
\* "0-30/10 * * * *"
WellFormed ==
    {<<"*", " ", "*", " ", "*", " ", "*", " ", "*">> ,
     <<"0", " ", "9", " ", "1", " ", "1", " ", "0">> ,
     <<"0", ",", "3", "0", " ", "9", ",", "1", "7", " ", "*", " ", "*", " ", "*">> ,
     <<"0", " ", "9", " ", "*", " ", "*", " ", "1", "-", "5">> ,
     <<"*", "/", "1", "5", " ", "*", " ", "*", " ", "*", " ", "*">> ,
     <<"0", "-", "3", "0", "/", "1", "0", " ", "*", " ", "*", " ", "*", " ", "*">>}

\* "* * *", "* * * * * *", "60 * * * *", "5-2 * * * *", "", "*/0 * * * *",
\* "0-30/0 * * * *", "0 24 * * *", "0 0 0 * *", "0 0 * 13 *", "0 0 * * 7",
\* "0 0 1-32 * *", "bad"
Malformed ==
    {<<"*", " ", "*", " ", "*">> ,
     <<"*", " ", "*", " ", "*", " ", "*", " ", "*", " ", "*">> ,
     <<"6", "0", " ", "*", " ", "*", " ", "*", " ", "*">> ,
     <<"5", "-", "2", " ", "*", " ", "*", " ", "*", " ", "*">> ,
     <<>> ,
     <<"*", "/", "0", " ", "*", " ", "*", " ", "*", " ", "*">> ,
     <<"0", "-", "3", "0", "/", "0", " ", "*", " ", "*", " ", "*", " ", "*">> ,
     <<"0", " ", "2", "4", " ", "*", " ", "*", " ", "*">> ,
     <<"0", " ", "0", " ", "0", " ", "*", " ", "*">> ,
     <<"0", " ", "0", " ", "*", " ", "1", "3", " ", "*">> ,
     <<"0", " ", "0", " ", "*", " ", "*", " ", "7">> ,
     <<"0", " ", "0", " ", "1", "-", "3", "2", " ", "*", " ", "*">> ,
     <<"b", "a", "d">>}

\* parse_cron_expr(expr) is called
ParseCall(expr) ==
    /\ parser.pc = "idle"
    /\ parser' = ParseBegin(expr)
    /\ UNCHANGED <<manager, turn, outbound, inbound, last_chat_id, disp, delivered, sessions, session,
                   tg, hb, jobs, now, cron, log>>

\* the call runs to its next cut
ParseNext ==
    /\ parser.pc \in {"field", "loop"}
    /\ parser' = ParseStep(parser)
    /\ UNCHANGED <<manager, turn, outbound, inbound, last_chat_id, disp, delivered, sessions, session,
                   tg, hb, jobs, now, cron, log>>

NextParse ==
    \/ \E expr \in WellFormed \cup Malformed : ParseCall(expr)
    \/ ParseNext

SpecParse == InitManager(0, SubagentMaxIterations) /\ [][NextParse]_vars /\ WF_vars(ParseNext)

----------------------------------------------------------------------------
(* SpecMatch: calls of next_match, one loop iteration per step             *)

\* "0 0 29 2 *", "0 0 31 2 *", "59 23 31 12 *"
MatchExprs ==
    WellFormed \cup
    {<<"0", " ", "0", " ", "2", "9", " ", "2", " ", "*">> ,
     <<"0", " ", "0", " ", "3", "1", " ", "2", " ", "*">> ,
     <<"5", "9", " ", "2", "3", " ", "3", "1", " ", "1", "2", " ", "*">>}

\* 1970-01-01 00:00:00; Sun 2025-02-16 12:00:00 (the reference time of the test
\* cron_next_fire); Sun 2026-02-22 12:00:00, 12:00:01 and 12:00:59;
\* Mon 2026-02-23 09:00:00; 2026-12-31 23:59:30; 2028-02-28 23:59:00
MatchTimes ==
    {0, 1739707200, 1771761600, 1771761601, 1771761659, 1771837200, 1798761570, 1835395140}

MatchCall(expr, after_unix) ==
    /\ parser.pc = "idle"
    /\ parser' = MatchBegin(parse_cron_expr(expr).val, after_unix)
    /\ UNCHANGED <<manager, turn, outbound, inbound, last_chat_id, disp, delivered, sessions, session,
                   tg, hb, jobs, now, cron, log>>

MatchNext ==
    /\ parser.pc = "match"
    /\ parser' = MatchStep(parser)
    /\ UNCHANGED <<manager, turn, outbound, inbound, last_chat_id, disp, delivered, sessions, session,
                   tg, hb, jobs, now, cron, log>>

NextMatch ==
    \/ \E expr \in MatchExprs, after_unix \in MatchTimes : MatchCall(expr, after_unix)
    \/ MatchNext

SpecMatch == InitManager(0, SubagentMaxIterations) /\ [][NextMatch]_vars

----------------------------------------------------------------------------
(* SpecCron: the cron store under the cron tool's calls, the ticks of the  *)
(* cron runner and restarts that reload jobs.json.  cron.clock is the      *)
(* system clock unix_now() reads; every save_inner succeeds, so cron.file  *)
(* (jobs.json) is the job list of the last mutation.                       *)

JobId(n) == "job-" \o ToString(n)

JobIds == {JobId(n) : n \in 1..(MaxJobs + 1)}

\* the (action, schedule) pairs the cron tool asks CronStore::add for at time t
AddRequests(t) ==
    {<<"agent", Once(t + ClockStep)>>, <<"direct", Once(t + ClockStep)>>,
     <<"agent", Interval(MinIntervalSeconds)>>, <<"direct", Cron(EveryMinute)>>,
     <<"direct", Once(t)>>, <<"agent", Interval(MinIntervalSeconds - 1)>>,
     <<"direct", Cron(NeverMatches)>>, <<"agent", Cron(BadExpr)>>}

CronStoreInit ==
    /\ jobs = <<>>
    /\ cron = [clock |-> T0, file |-> <<>>, next_id |-> 1, calls |-> 0, ret |-> None]

\* the system clock advances
ClockAdvance ==
    /\ cron.clock + ClockStep <= T0 + MaxElapsed
    /\ cron' = [cron EXCEPT !.clock = @ + ClockStep]
    /\ UNCHANGED <<manager, turn, outbound, inbound, last_chat_id, disp, delivered, sessions,
                   tg, hb, jobs, now, parser, session, log>>

\* add that takes a one-shot time equal to now
AddError_lenient(schedule, t, next_run) ==
    IF schedule.type = "interval" /\ schedule.n < MinIntervalSeconds
    THEN Some(CronError_Validation("interval must be at least 60 seconds"))
    ELSE IF schedule.type = "once" /\ schedule.n < t
    THEN Some(CronError_Validation("Scheduled time must be in the future"))
    ELSE IF schedule.type = "cron" /\ ~IsSome(next_run)
    THEN Some(CronError_Validation("cron expression has no upcoming matches"))
    ELSE None

\* the error CronStore::add returns for the schedule, or None
AddError(schedule, t, next_run) ==
    IF schedule.type = "interval" /\ schedule.n < MinIntervalSeconds
    THEN Some(CronError_Validation("interval must be at least 60 seconds"))
    ELSE IF schedule.type = "once" /\ schedule.n <= t
    THEN Some(CronError_Validation("Scheduled time must be in the future"))
    ELSE IF schedule.type = "cron" /\ ~IsSome(next_run)
    THEN Some(CronError_Validation("cron expression has no upcoming matches"))
    ELSE None

\* CronStore::add; save_ok: whether save_inner writes jobs.json
CronAddSave(message, action, schedule, chat_id, save_ok) ==
    /\ cron.calls < MaxOps /\ Len(jobs) < MaxJobs
    /\ LET t == cron.clock
           next_run == IF schedule.type = "once" THEN Some(schedule.n)
                       ELSE next_fire_after(schedule, t)
           err == AddError(schedule, t, next_run)
           job == CronJob(JobId(cron.next_id), message, action, schedule, chat_id, t, next_run)
       IN  IF IsSome(err)
           THEN /\ cron' = [cron EXCEPT !.calls = @ + 1,
                                        !.ret = Some([call |-> cron.calls + 1, schedule |-> schedule,
                                                      now |-> t, res |-> Err(Unwrap(err))])]
                /\ UNCHANGED jobs
           ELSE /\ jobs' = Append(jobs, job)
                /\ cron' = [cron EXCEPT
                        !.calls = @ + 1, !.next_id = @ + 1,
                        !.file = IF save_ok THEN jobs' ELSE @,
                        !.ret = Some([call |-> cron.calls + 1, schedule |-> schedule, now |-> t,
                                      res |-> IF save_ok THEN Ok(job)
                                              ELSE Err(CronError_Io("No space left on device"))])]
    /\ UNCHANGED <<manager, turn, outbound, inbound, last_chat_id, disp, delivered, sessions,
                   tg, hb, now, parser, session, log>>

\* CronStore::add with a jobs.json that can be written
CronAdd(message, action, schedule, chat_id) ==
    CronAddSave(message, action, schedule, chat_id, TRUE)

HasJob(js, id) == \E i \in DOMAIN js : js[i].id = id

\* CronStore::remove
CronRemove(id) ==
    /\ cron.calls < MaxOps
    /\ jobs' = SelectSeq(jobs, LAMBDA j : j.id # id)
    /\ cron' = [cron EXCEPT !.calls = @ + 1, !.file = jobs']
    /\ UNCHANGED <<manager, turn, outbound, inbound, last_chat_id, disp, delivered, sessions,
                   tg, hb, now, parser, session, log>>

\* CronStore::enable
CronEnable(id) ==
    /\ cron.calls < MaxOps
    /\ jobs' = [i \in 1..Len(jobs) |->
                  IF jobs[i].id # id THEN jobs[i]
                  ELSE [jobs[i] EXCEPT !.enabled = TRUE,
                                       !.next_run = next_fire_after(jobs[i].schedule, cron.clock)]]
    /\ cron' = [cron EXCEPT !.calls = @ + 1, !.file = jobs']
    /\ UNCHANGED <<manager, turn, outbound, inbound, last_chat_id, disp, delivered, sessions,
                   tg, hb, now, parser, session, log>>

\* CronStore::disable
CronDisable(id) ==
    /\ cron.calls < MaxOps
    /\ jobs' = [i \in 1..Len(jobs) |->
                  IF jobs[i].id # id THEN jobs[i]
                  ELSE [jobs[i] EXCEPT !.enabled = FALSE, !.next_run = None]]
    /\ cron' = [cron EXCEPT !.calls = @ + 1, !.file = jobs']
    /\ UNCHANGED <<manager, turn, outbound, inbound, last_chat_id, disp, delivered, sessions,
                   tg, hb, now, parser, session, log>>

\* the n of the id "job-n"
JobNumber(id) == CHOOSE n \in 0..(MaxOps + MaxJobs + 1) : id = JobId(n)

\* CronStore::load when the process starts again between two ticks
CronLoad ==
    /\ now.due = <<>>
    /\ jobs' = cron.file
    /\ cron' = [cron EXCEPT !.next_id =
                   IF cron.file = <<>> THEN 1
                   ELSE 1 + (CHOOSE m \in {JobNumber(cron.file[i].id) : i \in DOMAIN cron.file} :
                                \A i \in DOMAIN cron.file : JobNumber(cron.file[i].id) <= m)]
    /\ UNCHANGED <<manager, turn, outbound, inbound, last_chat_id, disp, delivered, sessions,
                   tg, hb, now, parser, session, log>>

\* cron_runner::tick_loop: `let now = unix_now()` and tick_once's find_due
Tick ==
    /\ now.due = <<>> /\ Len(log.ticks) < MaxTicks
    /\ now' = [t |-> cron.clock, due |-> find_due(jobs, cron.clock)]
    /\ log' = [log EXCEPT !.ticks = Append(@, [t |-> cron.clock, jobs |-> jobs])]
    /\ UNCHANGED <<manager, turn, outbound, inbound, last_chat_id, disp, delivered, sessions,
                   tg, hb, jobs, cron, parser, session>>

NextCron ==
    \/ ClockAdvance
    \/ \E r \in AddRequests(cron.clock) :
          CronAdd("Reminder", r[1], r[2], IF r[1] = "agent" THEN CronChat ELSE ChatId)
    \/ \E id \in JobIds : CronRemove(id)
    \/ \E id \in JobIds : CronEnable(id)
    \/ \E id \in JobIds : CronDisable(id)
    \/ CronLoad
    \/ Tick
    \/ CronFire

\* main before its first tick: an empty jobs.json, no message queued
InitCron == ManagerInit(0, SubagentMaxIterations) /\ DispatcherIdle /\ CronStoreInit

SpecCron == InitCron /\ [][NextCron]_vars

\* SpecCronIo: SpecCron with a jobs.json that add may fail to write
NextCronIo ==
    \/ ClockAdvance
    \/ \E r \in AddRequests(cron.clock), save_ok \in BOOLEAN :
          CronAddSave("Reminder", r[1], r[2], IF r[1] = "agent" THEN CronChat ELSE ChatId, save_ok)
    \/ \E id \in JobIds : CronRemove(id)
    \/ \E id \in JobIds : CronEnable(id)
    \/ \E id \in JobIds : CronDisable(id)
    \/ CronLoad
    \/ Tick
    \/ CronFire

SpecCronIo == InitCron /\ [][NextCronIo]_vars

---------------------------------------------------------------------------
(* agent::session: one chat's Session through the turns of                 *)
(* process_message: load, summarisation, the add_* calls, save, and the    *)
(* end of the turn that drops the object.                                  *)
(* SpecSession: every interleaving of these calls on one chat, the         *)
(* database failing or not at each load and save.                          *)

\* the summaries summarize_if_needed gives set_summary: never an empty one
Summaries == {"brief"}

\* the keep arguments of summarize_if_needed
Keeps == {KEEP_RECENT_MESSAGES, KEEP_RECENT_MESSAGES + 10}

\* the chat_history rows of the chat's session, in id order
load_session(chat_id) == IF chat_id \in DOMAIN sessions THEN sessions[chat_id] ELSE <<>>

\* the rows of the chat after one transaction has inserted `stored`
append_session(rows, stored) == rows \o stored

Ret(call, ok) == Some([call |-> call, ok |-> ok])

\* the conversation: each user message is answered by an assistant message
\* with one tool call, and that by the tool's result
NextRole ==
    CASE Len(session.added) % 3 = 0 -> "User"
      [] Len(session.added) % 3 = 1 -> "Assistant"
      [] Len(session.added) % 3 = 2 -> "Tool"

\* "msg n": the text of the n-th message of the chat
NextContent == Len(session.added)

\* Session::load
SessionLoad(chat_id, load_ok) ==
    /\ session.live = None
    /\ IF load_ok
       THEN LET history == MapSeq(stored_to_message, load_session(chat_id))
            IN  /\ sessions' = sessions @@ [c \in {chat_id} |-> <<>>]
                /\ session' = [session EXCEPT
                        !.live = Some(Session(cap_history(history), <<>>, session.chat_summary,
                                              chat_id)),
                        !.cut = FALSE, !.ret = Ret("load", TRUE)]
       ELSE /\ session' = [session EXCEPT !.ret = Ret("load", FALSE)]
            /\ UNCHANGED sessions
    /\ UNCHANGED <<manager, turn, outbound, inbound, last_chat_id, disp, delivered, tg, hb, jobs, now,
                   cron, parser, log>>
\* the end of add_user_message, add_assistant_message and add_tool_message
Push(msg) ==
    /\ session' = [session EXCEPT
            !.live = Some([Unwrap(session.live) EXCEPT
                              !.pending_inserts = Append(@, msg),
                              !.history = cap_history(Append(@, msg))]),
            !.added = Append(@, msg)]
    /\ UNCHANGED <<manager, turn, outbound, inbound, last_chat_id, disp, delivered, sessions, tg, hb,
                   jobs, now, cron, parser, log>>
AddUserMessage(content) ==
    /\ IsSome(session.live) /\ Len(session.added) < MaxAdds /\ NextRole = "User"
    /\ Push(Message("User", content, None, None))

AddAssistantMessage(content, tool_calls) ==
    /\ IsSome(session.live) /\ Len(session.added) < MaxAdds /\ NextRole = "Assistant"
    /\ Push(Message("Assistant", content, None, tool_calls))

AddToolMessage(tool_call_id, content) ==
    /\ IsSome(session.live) /\ Len(session.added) < MaxAdds /\ NextRole = "Tool"
    /\ Push(Message("Tool", content, Some(tool_call_id), None))

SetSummary(s) ==
    /\ IsSome(session.live)
    /\ session' = [session EXCEPT !.live = Some([Unwrap(session.live) EXCEPT !.summary = s])]
    /\ UNCHANGED <<manager, turn, outbound, inbound, last_chat_id, disp, delivered, sessions, tg, hb,
                   jobs, now, cron, parser, log>>
TruncateHistory(keep) ==
    /\ IsSome(session.live)
    /\ LET S == Unwrap(session.live) IN
       session' = [session EXCEPT
            !.live = Some([S EXCEPT !.history = truncate_history(@, keep)]),
            !.cut = @ \/ Len(S.history) > keep]
    /\ UNCHANGED <<manager, turn, outbound, inbound, last_chat_id, disp, delivered, sessions, tg, hb,
                   jobs, now, cron, parser, log>>
\* a save that writes the in-memory history
SessionSave_history(save_ok) ==
    /\ IsSome(session.live)
    /\ LET S == Unwrap(session.live) IN
       IF S.pending_inserts = <<>> /\ S.summary = ""
       THEN /\ session' = [session EXCEPT !.ret = Ret("save", TRUE)]
            /\ UNCHANGED sessions
       ELSE IF save_ok
       THEN /\ sessions' = [sessions EXCEPT ![S.chat_id] =
                                append_session(@, MapSeq(message_to_stored, S.history))]
            /\ session' = [session EXCEPT !.live = Some([S EXCEPT !.pending_inserts = <<>>]),
                                          !.chat_summary = S.summary, !.ret = Ret("save", TRUE)]
       ELSE /\ session' = [session EXCEPT !.ret = Ret("save", FALSE)]
            /\ UNCHANGED sessions
    /\ UNCHANGED <<manager, turn, outbound, inbound, last_chat_id, disp, delivered, tg, hb, jobs, now,
                   cron, parser, log>>
\* a save that empties pending_inserts before the database has answered
SessionSave_clear(save_ok) ==
    /\ IsSome(session.live)
    /\ LET S == Unwrap(session.live) IN
       IF S.pending_inserts = <<>> /\ S.summary = ""
       THEN /\ session' = [session EXCEPT !.ret = Ret("save", TRUE)]
            /\ UNCHANGED sessions
       ELSE IF save_ok
       THEN /\ sessions' = [sessions EXCEPT ![S.chat_id] =
                                append_session(@, MapSeq(message_to_stored, S.pending_inserts))]
            /\ session' = [session EXCEPT !.live = Some([S EXCEPT !.pending_inserts = <<>>]),
                                          !.chat_summary = S.summary, !.ret = Ret("save", TRUE)]
       ELSE /\ session' = [session EXCEPT !.live = Some([S EXCEPT !.pending_inserts = <<>>]),
                                          !.ret = Ret("save", FALSE)]
            /\ UNCHANGED sessions
    /\ UNCHANGED <<manager, turn, outbound, inbound, last_chat_id, disp, delivered, tg, hb, jobs, now,
                   cron, parser, log>>

\* Session::save; save_ok: whether the transaction of append_session commits
SessionSave(save_ok) ==
    /\ IsSome(session.live)
    /\ LET S == Unwrap(session.live) IN
       IF S.pending_inserts = <<>> /\ S.summary = ""
       THEN /\ session' = [session EXCEPT !.ret = Ret("save", TRUE)]
            /\ UNCHANGED sessions
       ELSE IF save_ok
       THEN /\ sessions' = [sessions EXCEPT ![S.chat_id] =
                                append_session(@, MapSeq(message_to_stored, S.pending_inserts))]
            /\ session' = [session EXCEPT !.live = Some([S EXCEPT !.pending_inserts = <<>>]),
                                          !.chat_summary = S.summary, !.ret = Ret("save", TRUE)]
       ELSE /\ session' = [session EXCEPT !.ret = Ret("save", FALSE)]
            /\ UNCHANGED sessions
    /\ UNCHANGED <<manager, turn, outbound, inbound, last_chat_id, disp, delivered, tg, hb, jobs, now,
                   cron, parser, log>>
\* process_message returns: its Session goes out of scope, and with it the
\* messages no save has written
SessionDrop ==
    /\ IsSome(session.live)
    /\ LET S == Unwrap(session.live) IN
       session' = [session EXCEPT
            !.live = None, !.cut = FALSE, !.ret = None,
            !.added = SubSeq(@, 1, Len(@) - Len(S.pending_inserts))]
    /\ UNCHANGED <<manager, turn, outbound, inbound, last_chat_id, disp, delivered, sessions, tg, hb,
                   jobs, now, cron, parser, log>>
NextSession ==
    \/ \E load_ok \in BOOLEAN : SessionLoad(ChatId, load_ok)
    \/ AddUserMessage(NextContent)
    \/ AddAssistantMessage(NextContent, Some(<<ToolCall("call", "read_file", TRUE)>>))
    \/ AddToolMessage("call", NextContent)
    \/ \E s \in Summaries : SetSummary(s)
    \/ \E keep \in Keeps : TruncateHistory(keep)
    \/ \E save_ok \in BOOLEAN : SessionSave(save_ok)
    \/ SessionDrop

SpecSession == InitManager(0, SubagentMaxIterations) /\ [][NextSession]_vars

\* SpecSessionApi: the Session of one chat under every caller of its public
\* interface, which may pass set_summary an empty string
NextSessionApi ==
    \/ \E load_ok \in BOOLEAN : SessionLoad(ChatId, load_ok)
    \/ AddUserMessage(NextContent)
    \/ AddAssistantMessage(NextContent, Some(<<ToolCall("call", "read_file", TRUE)>>))
    \/ AddToolMessage("call", NextContent)
    \/ \E s \in Summaries \cup {""} : SetSummary(s)
    \/ \E save_ok \in BOOLEAN : SessionSave(save_ok)
    \/ SessionDrop

SpecSessionApi == InitManager(0, SubagentMaxIterations) /\ [][NextSessionApi]_vars

---------------------------------------------------------------------------
(* agent::process_message: the stateful turn of one chat, with             *)
(* agent::summarize::summarize_if_needed at its start.  session.pm is the  *)
(* frame of process_message:                                               *)
(*   pc       : "idle" between turns; "loaded" after Session::load;        *)
(*              "summarized" once the summariser has returned or was       *)
(*              skipped; "built" after build_messages and                  *)
(*              add_user_message; "looped" after run_agent_loop            *)
(*   user     : user_message                                               *)
(*   messages : what build_messages gave the model, the system prompt      *)
(*              aside                                                      *)
(*   before, loaded, sum, loop, result, folded, at : history, see PmIdle   *)
(* SpecTurn: the turns of one chat one after another; every call to the    *)
(* model and to the database may fail.                                     *)

SUMMARIZE_THRESHOLD == 20
MULTI_PASS_THRESHOLD == 10
DEFAULT_CONTEXT_WINDOW == 128000
\* successful turns of the chat
MaxTurns == 13
\* characters of a chat message, and of a pasted document
ShortChars == 12
LongChars == 200000

\* (DEFAULT_CONTEXT_WINDOW as f64 * MAX_MESSAGE_TOKENS_RATIO) as usize
MaxMessageTokens == DEFAULT_CONTEXT_WINDOW \div 2

SummaryNote == "[Note: Some oversized messages were omitted from this summary for efficiency.]"

\* a text of the chat: its serial number and its length in characters
Text(n, chars) == [n |-> n, chars |-> chars]

TextChars == {ShortChars, LongChars}

\* what the model answers a summarisation request with, or its failure
SummaryReplies(text) == {Err("timeout"), Ok("  "), Ok(" " \o text \o "\n")}

\* str::trim, over the answers of the model
trim(s) ==
    CASE s = "  " -> ""
      [] s = " one\n" -> "one"
      [] s = " two\n" -> "two"
      [] s = " both\n" -> "both"
      [] OTHER -> s

should_summarize(history) == Len(history) > SUMMARIZE_THRESHOLD

estimate_tokens(text) == text.chars \div 3

IsConversation(msg) == msg.role \in {"User", "Assistant"}

filter_valid_messages(messages, max_tokens) ==
    [valid |-> SelectSeq(messages,
                  LAMBDA msg : IsConversation(msg) /\ estimate_tokens(msg.content) <= max_tokens),
     omitted |-> \E i \in DOMAIN messages :
                    IsConversation(messages[i]) /\ estimate_tokens(messages[i].content) > max_tokens]

\* summarize_batch and merge_summaries once the model has answered `reply`
summarize_batch(messages, reply) ==
    IF messages = <<>> THEN Err("summarize: empty batch")
    ELSE IF reply.ok THEN Ok(trim(reply.val))
    ELSE Err("summarize llm: " \o reply.val)

merge_summaries(s1, s2, reply) ==
    IF reply.ok THEN Ok(trim(reply.val)) ELSE Err("summarize llm: " \o reply.val)

\* format!("{}\n\n{}", a, b)
BlankLine(a, b) == a \o "\n\n" \o b

\* the summariser's report: its result, the Session it leaves, the messages
\* it gave the model, the summary it produced
Summarized(ret, S, valid, new) == [ret |-> ret, session |-> S, valid |-> valid, new |-> new]

\* the answers of the model to the calls summarize_if_needed made, in order
Calls(S, r1, r2, rm) ==
    LET to_summarize == SubSeq(S.history, 1, Len(S.history) - KEEP_RECENT_MESSAGES)
        valid == SelectSeq(to_summarize,
                     LAMBDA msg : msg.role \in {"User", "Assistant"}
                                  /\ msg.content.chars \div 3 <= MaxMessageTokens)
    IN  IF Len(S.history) <= SUMMARIZE_THRESHOLD \/ valid = <<>> THEN <<>>
        ELSE IF Len(valid) <= MULTI_PASS_THRESHOLD \/ ~r1.ok THEN <<r1>>
        ELSE IF ~r2.ok THEN <<r1, r2>>
        ELSE <<r1, r2, rm>>

\* a summariser that gives up when the merge call fails
new_summary_strict(valid, existing_summary, r1, r2, rm) ==
    IF Len(valid) > MULTI_PASS_THRESHOLD
    THEN LET mid == Len(valid) \div 2
             s1 == summarize_batch(SubSeq(valid, 1, mid), r1)
             s2 == summarize_batch(SubSeq(valid, mid + 1, Len(valid)), r2)
             merged == merge_summaries(s1.val, s2.val, rm)
         IN  IF ~s1.ok THEN s1
             ELSE IF ~s2.ok THEN s2
             ELSE merged
    ELSE summarize_batch(valid, r1)

\* new_summary of summarize_if_needed: r1, r2, rm answer the calls of the
\* two passes and of the merge
new_summary(valid, existing_summary, r1, r2, rm) ==
    IF Len(valid) > MULTI_PASS_THRESHOLD
    THEN LET mid == Len(valid) \div 2
             s1 == summarize_batch(SubSeq(valid, 1, mid), r1)
             s2 == summarize_batch(SubSeq(valid, mid + 1, Len(valid)), r2)
             merged == merge_summaries(s1.val, s2.val, rm)
         IN  IF ~s1.ok THEN s1
             ELSE IF ~s2.ok THEN s2
             ELSE IF merged.ok THEN merged
             ELSE Ok(BlankLine(s1.val, s2.val))
    ELSE summarize_batch(valid, r1)

\* a summariser that replaces the summary of the session
summarize_if_needed_replace(S, r1, r2, rm) ==
    IF ~should_summarize(S.history) THEN Summarized(Ok(FALSE), S, <<>>, "")
    ELSE LET to_summarize == SubSeq(S.history, 1, Len(S.history) - KEEP_RECENT_MESSAGES)
             f == filter_valid_messages(to_summarize, MaxMessageTokens)
             new == new_summary(f.valid, S.summary, r1, r2, rm)
             final_summary == IF f.omitted /\ new.val # ""
                              THEN BlankLine(new.val, SummaryNote) ELSE new.val
             updated_summary == final_summary
         IN  IF f.valid = <<>>
             THEN Summarized(Ok(FALSE),
                             [S EXCEPT !.history = truncate_history(@, KEEP_RECENT_MESSAGES + 10)],
                             <<>>, "")
             ELSE IF ~new.ok THEN Summarized(new, S, f.valid, "")
             ELSE Summarized(Ok(TRUE),
                             [S EXCEPT !.summary = IF final_summary # "" THEN updated_summary ELSE @,
                                       !.history = truncate_history(@, KEEP_RECENT_MESSAGES)],
                             f.valid, final_summary)

summarize_if_needed(S, r1, r2, rm) ==
    IF ~should_summarize(S.history) THEN Summarized(Ok(FALSE), S, <<>>, "")
    ELSE LET to_summarize == SubSeq(S.history, 1, Len(S.history) - KEEP_RECENT_MESSAGES)
             f == filter_valid_messages(to_summarize, MaxMessageTokens)
             new == new_summary(f.valid, S.summary, r1, r2, rm)
             final_summary == IF f.omitted /\ new.val # ""
                              THEN BlankLine(new.val, SummaryNote) ELSE new.val
             updated_summary == IF S.summary = "" THEN final_summary
                                ELSE BlankLine(S.summary, final_summary)
         IN  IF f.valid = <<>>
             THEN Summarized(Ok(FALSE),
                             [S EXCEPT !.history = truncate_history(@, KEEP_RECENT_MESSAGES + 10)],
                             <<>>, "")
             ELSE IF ~new.ok THEN Summarized(new, S, f.valid, "")
             ELSE Summarized(Ok(TRUE),
                             [S EXCEPT !.summary = IF final_summary # "" THEN updated_summary ELSE @,
                                       !.history = truncate_history(@, KEEP_RECENT_MESSAGES)],
                             f.valid, final_summary)

\* what the chat has in storage
Stored == [rows |-> load_session(ChatId), summary |-> session.chat_summary]

Pm == session.pm

\* process_message returns r and its Session goes out of scope
PmReturn(r) == [Pm EXCEPT !.pc = "idle", !.result = Some(r)]

TurnFrame ==
    UNCHANGED <<manager, turn, outbound, inbound, last_chat_id, disp, delivered, tg, hb, jobs, now,
                cron, parser, log>>

\* the chat's user sends texts of one length, and so does the model
SameLength(i, chars) ==
    LET rows == load_session(ChatId)
    IN  IF rows = <<>> THEN TRUE ELSE rows[i].content.chars = chars

\* process_message up to the return of Session::load
PmLoad(chars, load_ok) ==
    /\ Pm.pc = "idle" /\ session.live = None
    /\ Len(load_session(ChatId)) < 2 * MaxTurns
    /\ SameLength(1, chars)
    /\ LET history == MapSeq(stored_to_message, load_session(ChatId))
           S == Session(cap_history(history), <<>>, session.chat_summary, ChatId)
           frame == [Pm EXCEPT !.user = Some(Text(Len(history) + 1, chars)), !.messages = <<>>,
                               !.before = Some(Stored), !.loaded = None, !.sum = None,
                               !.loop = None, !.result = None]
       IN  IF load_ok
           THEN /\ sessions' = sessions @@ [c \in {ChatId} |-> <<>>]
                /\ session' = [session EXCEPT
                        !.live = Some(S),
                        !.pm = [frame EXCEPT !.pc = "loaded", !.loaded = Some(S)]]
           ELSE /\ session' = [session EXCEPT
                        !.pm = [frame EXCEPT !.result = Some(Err(AgentErrorSession("locked")))]]
                /\ UNCHANGED sessions
    /\ TurnFrame

\* process_message: the call of summarize_if_needed, its error swallowed
PmSummarize(r1, r2, rm) ==
    /\ Pm.pc = "loaded"
    /\ LET S == Unwrap(session.live)
           r == summarize_if_needed(S, r1, r2, rm)
       IN  IF Len(S.history) > SUMMARIZE_THRESHOLD
           THEN session' = [session EXCEPT
                    !.live = Some(IF r.ret.ok THEN r.session ELSE S),
                    !.pm = [Pm EXCEPT !.pc = "summarized",
                                      !.sum = Some([report |-> r, calls |-> Calls(S, r1, r2, rm)])]]
           ELSE session' = [session EXCEPT !.pm = [Pm EXCEPT !.pc = "summarized"]]
    /\ UNCHANGED sessions
    /\ TurnFrame

\* process_message: build_messages and add_user_message
PmBuild ==
    /\ Pm.pc = "summarized"
    /\ LET S == Unwrap(session.live)
           msg == Message("User", Unwrap(Pm.user), None, None)
       IN  session' = [session EXCEPT
                !.live = Some([S EXCEPT !.pending_inserts = Append(@, msg),
                                        !.history = cap_history(Append(@, msg))]),
                !.pm = [Pm EXCEPT !.pc = "built", !.messages = Append(S.history, msg)]]
    /\ UNCHANGED sessions
    /\ TurnFrame

\* what run_agent_loop exchanged after `rounds` rounds of one tool call
Transcript(rounds) ==
    IF rounds = 0 THEN <<>>
    ELSE <<Message("Assistant", Text(0, 0), None, Some(<<ToolCall("call", "read_file", TRUE)>>)),
           Message("Tool", Text(0, ShortChars), Some("call"), None)>>

\* a process_message that saves its session when the loop has failed
PmLoop_save(rounds, chars, llm_ok) ==
    /\ Pm.pc = "built"
    /\ SameLength(2, chars)
    /\ LET final == Text(Unwrap(Pm.user).n + 1, chars)
           loop == [transcript |-> Transcript(rounds),
                    ret |-> IF llm_ok THEN Ok(final) ELSE Err("agent llm: timeout")]
       IN  IF llm_ok
           THEN /\ session' = [session EXCEPT !.pm = [Pm EXCEPT !.pc = "looped", !.loop = Some(loop)]]
                /\ UNCHANGED sessions
           ELSE LET S == Unwrap(session.live) IN
                /\ session' = [session EXCEPT !.live = None, !.chat_summary = S.summary,
                                              !.pm = [PmReturn(loop.ret) EXCEPT !.loop = Some(loop)]]
                /\ sessions' = [sessions EXCEPT ![ChatId] =
                        append_session(@, MapSeq(message_to_stored, S.pending_inserts))]
    /\ TurnFrame

\* process_message: run_agent_loop returns, with an error of the model or
\* with the final content
PmLoop(rounds, chars, llm_ok) ==
    /\ Pm.pc = "built"
    /\ SameLength(2, chars)
    /\ LET final == Text(Unwrap(Pm.user).n + 1, chars)
           loop == [transcript |-> Transcript(rounds),
                    ret |-> IF llm_ok THEN Ok(final) ELSE Err("agent llm: timeout")]
       IN  IF llm_ok
           THEN /\ session' = [session EXCEPT !.pm = [Pm EXCEPT !.pc = "looped", !.loop = Some(loop)]]
                /\ UNCHANGED sessions
           ELSE /\ session' = [session EXCEPT !.live = None,
                                              !.pm = [PmReturn(loop.ret) EXCEPT !.loop = Some(loop)]]
                /\ UNCHANGED sessions
    /\ TurnFrame

\* the messages the summariser has made a summary of, once the turn has saved
Folded(sum) ==
    IF IsSome(sum) /\ Unwrap(sum).report.ret = Ok(TRUE) /\ Unwrap(sum).report.new # ""
    THEN {Unwrap(sum).report.valid[i] : i \in DOMAIN Unwrap(sum).report.valid} ELSE {}

\* process_message: add_assistant_message, Session::save and the return
PmSave(save_ok) ==
    /\ Pm.pc = "looped"
    /\ LET S == Unwrap(session.live)
           msg == Message("Assistant", Unwrap(Pm.loop).ret.val, None, None)
           pending_inserts == Append(S.pending_inserts, msg)
           rows == append_session(load_session(ChatId), MapSeq(message_to_stored, pending_inserts))
       IN  IF save_ok
           THEN /\ sessions' = [sessions EXCEPT ![ChatId] = rows]
                /\ session' = [session EXCEPT
                        !.live = None, !.chat_summary = S.summary,
                        !.pm = [PmReturn(Unwrap(Pm.loop).ret) EXCEPT
                                   !.folded = @ \cup Folded(Pm.sum),
                                   !.at = IF Folded(Pm.sum) # {} THEN Len(rows) ELSE @]]
           ELSE /\ session' = [session EXCEPT
                        !.live = None,
                        !.pm = PmReturn(Err(AgentErrorSession("disk full")))]
                /\ UNCHANGED sessions
    /\ TurnFrame

NextTurn ==
    \/ \E chars \in TextChars, load_ok \in BOOLEAN : PmLoad(chars, load_ok)
    \/ \E r1 \in SummaryReplies("one"), r2 \in SummaryReplies("two"), rm \in SummaryReplies("both") :
          PmSummarize(r1, r2, rm)
    \/ PmBuild
    \/ \E rounds \in {0, 1}, chars \in TextChars, llm_ok \in BOOLEAN : PmLoop(rounds, chars, llm_ok)
    \/ \E save_ok \in BOOLEAN : PmSave(save_ok)

SpecTurn == InitManager(0, SubagentMaxIterations) /\ [][NextTurn]_vars

---------------------------------------------------------------------------
(* telegram::poll_loop with its offset and its allow-list.  In SpecPoll    *)
(* `tg` is the state of the poll task:                                     *)
(*   pc              : "poll" in get_updates().await, "send" in            *)
(*                     inbound_tx.send(msg).await                          *)
(*   offset, max_update_id, backoff_secs : the locals of poll_loop         *)
(*   batch           : the tuples of get_updates the for loop has not      *)
(*                     passed; at "send" its head is the message in flight *)
(*   allowed_user_ids: TelegramConfig.allowed_user_ids                     *)
(*   polls           : get_updates calls so far                            *)
(*   resp            : history, the last response of the Bot API           *)

\* the user of the allow-list, another user, and the chat of both
Owner == 12345
Stranger == 99999
TgChat == 67890
\* get_updates calls per behaviour
MaxPolls == 3
\* the largest update_id the Bot API hands out
MaxUpdateId == 3
\* cap of the back-off after a failed call
MaxBackoffSecs == 30

\* the allow-lists of the configuration
AllowLists == {None, Some(<<>>), Some(<<Owner>>)}

\* telegram::Update with its message: from, chat and text are optional
Update(update_id, from, chat, text) ==
    [update_id |-> update_id, message |-> Some([from |-> from, chat |-> chat, text |-> text])]

\* the updates the Bot API can send with an id: a text of the owner, a text
\* of a stranger, a photo of the owner (no text), a channel post (no sender)
UpdatesOf(id) ==
    {Update(id, Some(Owner), Some(TgChat), Some("hello")),
     Update(id, Some(Stranger), Some(TgChat), Some("hello")),
     Update(id, Some(Owner), Some(TgChat), None),
     Update(id, None, Some(TgChat), Some("hello"))}

\* the answers of the Bot API to getUpdates?offset=o: a failure, a body that
\* does not parse, ok = false, and batches of up to two updates in id order
\* with ids from o on
ApiResponses(o) ==
    {[status |-> 503, parses |-> FALSE, ok |-> FALSE, result |-> <<>>],
     [status |-> 200, parses |-> FALSE, ok |-> FALSE, result |-> <<>>],
     [status |-> 200, parses |-> TRUE, ok |-> FALSE, result |-> <<>>],
     [status |-> 200, parses |-> TRUE, ok |-> TRUE, result |-> <<>>]}
    \cup {[status |-> 200, parses |-> TRUE, ok |-> TRUE, result |-> <<u>>] :
            u \in UNION {UpdatesOf(id) : id \in o..MaxUpdateId}}
    \cup UNION {{[status |-> 200, parses |-> TRUE, ok |-> TRUE, result |-> <<u, v>>] :
                    u \in UpdatesOf(ids[1]), v \in UpdatesOf(ids[2])} :
                ids \in {p \in (o..MaxUpdateId) \X (o..MaxUpdateId) : p[1] < p[2]}}

\* telegram::InboundMsg with the user_id poll_loop gives it
TgInboundMsg(chat_id, user_id, text) ==
    [chat_id |-> chat_id, user_id |-> user_id, text |-> text, channel |-> "telegram"]

\* the tuple get_updates pushes for an update, if it pushes one
UpdateTuple(update) ==
    IF update.message = None THEN None
    ELSE LET msg == Unwrap(update.message) IN
         IF msg.text = None \/ msg.text = Some("") THEN None
         ELSE IF msg.from = None \/ msg.chat = None THEN None
         ELSE Some([update_id |-> update.update_id, chat_id |-> Unwrap(msg.chat),
                    user_id |-> Unwrap(msg.from), text |-> Unwrap(msg.text)])

\* TelegramClient::get_updates on the response resp
get_updates(resp) ==
    IF resp.status # 200 THEN Err("telegram http: 503 Service Unavailable")
    ELSE IF ~resp.parses THEN Err("telegram parse: expected value")
    ELSE IF ~resp.ok THEN Ok(<<>>)
    ELSE Ok(MapSeq(LAMBDA u : Unwrap(UpdateTuple(u)),
                   SelectSeq(resp.result, LAMBDA u : UpdateTuple(u) # None)))

is_allowed(allowed_user_ids, user_id) ==
    IF allowed_user_ids = None THEN TRUE
    ELSE IF Unwrap(allowed_user_ids) = <<>> THEN TRUE
    ELSE \E i \in DOMAIN Unwrap(allowed_user_ids) : Unwrap(allowed_user_ids)[i] = user_id

\* i64::max over the update ids of the first n tuples, from m
MaxId(m, batch, n) ==
    LET ids == {m} \cup {batch[i].update_id : i \in 1..n}
    IN  CHOOSE x \in ids : \A y \in ids : y <= x

\* the index of the first tuple of batch that passes the allow-list, or 0
FirstAllowed(allowed_user_ids, batch) ==
    LET hits == {i \in DOMAIN batch : is_allowed(allowed_user_ids, batch[i].user_id)}
    IN  IF hits = {} THEN 0 ELSE CHOOSE i \in hits : \A j \in hits : i <= j

\* the for loop of poll_loop over batch, up to its next send().await or to
\* `offset = max_update_id + 1`
ForLoop(t, batch) ==
    LET k == FirstAllowed(t.allowed_user_ids, batch) IN
    IF k = 0
    THEN [t EXCEPT !.pc = "poll", !.batch = <<>>,
                   !.max_update_id = MaxId(@, batch, Len(batch)),
                   !.offset = MaxId(t.max_update_id, batch, Len(batch)) + 1]
    ELSE [t EXCEPT !.pc = "send", !.batch = SubSeq(batch, k, Len(batch)),
                   !.max_update_id = MaxId(@, batch, k)]

\* poll_loop before its first call
PollInit(allowed_user_ids) ==
    [pc |-> "poll", offset |-> 0, max_update_id |-> 0, backoff_secs |-> 1, batch |-> <<>>,
     allowed_user_ids |-> allowed_user_ids, polls |-> 0, resp |-> None]

\* client.get_updates(offset, ..).await returns on the response resp
PollGetUpdates(resp) ==
    /\ tg.pc = "poll" /\ tg.polls < MaxPolls
    /\ LET r == get_updates(resp)
           t == [tg EXCEPT !.polls = @ + 1, !.resp = Some(resp)]
       IN  tg' = IF r.ok
                 THEN ForLoop([t EXCEPT !.backoff_secs = 1, !.max_update_id = tg.offset], r.val)
                 ELSE [t EXCEPT !.backoff_secs = MinOf(@ * 2, MaxBackoffSecs)]
    /\ UNCHANGED <<manager, turn, outbound, inbound, last_chat_id, disp, delivered, sessions, hb,
                   jobs, now, cron, parser, session, log>>

\* inbound_tx.send(msg).await completes, and the loop goes on
PollSend ==
    /\ tg.pc = "send" /\ Len(inbound) < InboundCap
    /\ LET u == Head(tg.batch)
           msg == TgInboundMsg(u.chat_id, u.user_id, u.text)
       IN  /\ inbound' = Append(inbound, msg)
           /\ log' = [log EXCEPT !.enq = Append(@, msg)]
           /\ tg' = ForLoop(tg, Tail(tg.batch))
    /\ UNCHANGED <<manager, turn, outbound, last_chat_id, disp, delivered, sessions, hb,
                   jobs, now, cron, parser, session>>

\* main takes a message off the inbound channel
InboundRecv ==
    /\ inbound # <<>>
    /\ inbound' = Tail(inbound)
    /\ UNCHANGED <<manager, turn, outbound, last_chat_id, disp, delivered, sessions, tg, hb,
                   jobs, now, cron, parser, session, log>>

InitPoll ==
    /\ ManagerInit(0, SubagentMaxIterations)
    /\ DispatcherQuiet
    /\ jobs = <<>>
    /\ cron = [clock |-> 0, file |-> <<>>, next_id |-> 1, calls |-> 0, ret |-> None]
    /\ \E allowed_user_ids \in AllowLists : tg = PollInit(allowed_user_ids)

NextPoll ==
    \/ \E resp \in ApiResponses(tg.offset) : PollGetUpdates(resp)
    \/ PollSend
    \/ InboundRecv

SpecPoll == InitPoll /\ [][NextPoll]_vars

---------------------------------------------------------------------------
(* Derived state                                                           *)

\* the ids for which cancel has returned true
cancelled_ok == {id \in TaskIds : cancels[id] > 0}

NonRunning(ts) == {id \in DOMAIN ts : ts[id].status # "Running"}

\* ids whose entry was inserted and is no longer in the map
Pruned ==
    {TaskId(n) : n \in {m \in 1..(next_id - 1) :
        /\ TaskId(m) \notin DOMAIN tasks
        /\ \A c \in Threads : ~(sid[c] = m /\ spc[c] = "fetched")}}

---------------------------------------------------------------------------
(* Claims checked under SpecMgr                                            *)

\* C1: terminal statuses are absorbing: in every step, an entry that is not
\* Running keeps its status and result as long as it is in the map (so a
\* second complete_task leaves the first (status, result)), and a cancel on
\* a terminal or unknown task returns false and changes nothing.
C1_TerminalAbsorbing ==
    [][ /\ \A id \in NonRunning(tasks) :
              id \in DOMAIN tasks' =>
                 /\ tasks'[id].status = tasks[id].status
                 /\ tasks'[id].result = tasks[id].result
        /\ \A id \in TaskIds :
              (Cancel(id) /\ (id \notin DOMAIN tasks \/ tasks[id].status # "Running"))
                 => (tasks' = tasks /\ cancels' = cancels /\ runner' = runner)
      ]_vars

\* C1 witness: the runner reported its own completion for a task that an
\* earlier complete_task(id, Completed, "a") had already completed, and the
\* entry still shows the first (status, result).
C1_Witness ==
    \E id \in DOMAIN tasks :
        /\ id \in DOMAIN runner /\ runner[id].pc = "done"
        /\ tasks[id].status = "Completed" /\ tasks[id].result = Some("a")

\* C2: once cancel(id) has returned true, the entry is Cancelled with result
\* "Cancelled" for as long as it is in the map, whatever the runner reports
\* afterwards.
C2_CancelSticks ==
    \A id \in cancelled_ok :
        id \in DOMAIN tasks =>
            /\ tasks[id].status = "Cancelled"
            /\ tasks[id].result = Some("Cancelled")

\* C2 witness: the runner of a cancelled task ran to its end and reported a
\* completion after the cancel.
C2_Witness ==
    \E id \in cancelled_ok :
        /\ id \in DOMAIN tasks /\ id \in DOMAIN runner
        /\ runner[id].pc = "done"

\* C4 (as claimed): the map never holds more than MAX_COMPLETED_TASKS entries
\* that are not Running.
C4_RetentionCap == Cardinality(NonRunning(tasks)) <= MAX_COMPLETED_TASKS

\* C5: a step never removes a Running entry (the only entry that can go
\* while it was Running before the step is the one that the step's
\* complete_task call turned terminal), and
\* every entry removed was created no later than every terminal entry kept.
C5_PruneOldestNeverRunning ==
    [][ LET removed == DOMAIN tasks \ DOMAIN tasks'
            turned == {id \in DOMAIN tasks \cap DOMAIN tasks' :
                          tasks[id].status = "Running" /\ tasks'[id].status # "Running"}
            removedRunning == {id \in removed : tasks[id].status = "Running"}
        IN  /\ Cardinality(removedRunning) + Cardinality(turned) <= 1
            /\ \A r \in removedRunning :
                  \/ \E c \in ExternalCompletions : CompleteTask(r, c[1], c[2])
                  \/ \E resp \in MgrResponses : RunnerLlm(r, resp)
            /\ \A r \in removed : \A k \in NonRunning(tasks') :
                  tasks[r].created_at <= tasks'[k].created_at
      ]_vars

\* C5 witness: an entry has been pruned while an entry spawned before it is
\* still Running and in the map.
C5_Witness ==
    \E m, n \in 1..MaxTasks :
        /\ m < n
        /\ TaskId(n) \in Pruned
        /\ TaskId(m) \in DOMAIN tasks /\ tasks[TaskId(m)].status = "Running"

---------------------------------------------------------------------------
(* Claims checked under SpecRun                                            *)

\* the runner of task id, once launched
Launched(id) == id \in DOMAIN runner

\* the runner's future is still alive: it can be polled again
Alive(L) == L.pc \in {"init", "llm", "tool"}

\* C3 (as claimed): once cancel(id) has returned true, the runner of id
\* issues no LLM call, invokes no tool and sends no outbound message.
C3_CancelStopsRunner ==
    [][ \A id \in cancelled_ok :
            (Launched(id) /\ id \in DOMAIN runner') =>
                /\ runner'[id].iter = runner[id].iter
                /\ runner'[id].invoked = runner[id].invoked
                /\ runner'[id].sent = runner[id].sent
      ]_vars

\* what run_subagent reports for a loop that returned
Reported(L) ==
    LET r == Unwrap(L.result)
    IN  [status |-> IF r.ok THEN "Completed" ELSE "Failed", result |-> Some(r.val)]

\* C6 (as claimed): a task that was not cancelled and whose runner has ended
\* has left Running: Completed with the loop's content, Failed with the
\* loop's error string, or Failed after a panic of the runner.
C6_RunnerEndLeavesRunning ==
    \A id \in DOMAIN tasks :
        (Launched(id) /\ cancels[id] = 0) =>
            /\ runner[id].pc = "done" =>
                  /\ tasks[id].status = Reported(runner[id]).status
                  /\ tasks[id].result = Reported(runner[id]).result
            /\ runner[id].pc = "panicked" => tasks[id].status = "Failed"

\* ids for which spawn is past its insert
Inserted ==
    {TaskId(n) : n \in {m \in 1..(next_id - 1) :
        \A c \in Threads : ~(sid[c] = m /\ spc[c] = "fetched")}}

\* C7 (as claimed): at the moment spawn returns id, get_task(id) yields an
\* entry.
C7_EntryAtReturn ==
    [][ \A c \in Threads :
            SpawnStore(c) => IsSome(get_task(tasks', TaskId(sid[c])))
      ]_vars

\* C7 (amended): spawn never waits for the runner and never fails (each of
\* its steps is enabled whatever the runners do); get_task(id) yields an
\* entry from the insert for as long as the task is Running, and an entry
\* is missing only for a task that has left Running (its runner reported, or
\* it was cancelled) and was pruned; the ids returned are pairwise distinct,
\* of the form subagent-<n> with n counted from 1, and a spawn call that
\* starts later gets a larger n than every id already returned.
C7_SpawnIds ==
    [][ /\ \A c \in Threads :
              /\ spc[c] = "fetched" => ENABLED SpawnInsert(c)
              /\ spc[c] = "inserted" => ENABLED SpawnLaunch(c)
              /\ spc[c] = "launched" => ENABLED SpawnStore(c)
        /\ \A id \in Inserted :
              ~IsSome(get_task(tasks, id)) =>
                  \/ cancels[id] > 0
                  \/ Launched(id) /\ runner[id].pc = "done"
        /\ \A i, j \in 1..Len(spawned) : i # j => spawned[i] # spawned[j]
        /\ \A i \in 1..Len(spawned) : \E n \in 1..(next_id - 1) : spawned[i] = TaskId(n)
        /\ next_id = 1 => spawned = <<>>
        /\ \A c \in Threads :
              SpawnFetch(c) =>
                  /\ sid'[c] = next_id
                  /\ \A i \in 1..Len(spawned) : \E n \in 1..(sid'[c] - 1) : spawned[i] = TaskId(n)
                  /\ \A d \in Threads \ {c} : spc[d] # "idle" => sid[d] < sid'[c]
      ]_vars

\* C7 witness: two concurrent spawn calls have returned, the one that drew
\* the larger n first, and the entry of subagent-1 was already pruned.
C7_Witness ==
    /\ Len(spawned) >= 2
    /\ spawned[1] = TaskId(2) /\ spawned[2] = TaskId(1)
    /\ ~IsSome(get_task(tasks, TaskId(1)))

\* C8: the dispatcher turn never waits for a subagent: while it is inside the
\* spawn tool its next step is enabled whatever the runners do, and so are
\* its chat call and a final reply.
C8_TurnNeverWaits ==
    /\ TurnInSpawnTool =>
          /\ spc["turn"] = "idle" => ENABLED (SpawnFetch("turn") \/ SpawnToolError)
          /\ spc["turn"] = "fetched" => ENABLED SpawnInsert("turn")
          /\ spc["turn"] = "inserted" => ENABLED SpawnLaunch("turn")
          /\ spc["turn"] = "launched" => ENABLED SpawnStore("turn")
    /\ turn.pc = "init" => ENABLED TurnStart
    /\ turn.pc = "llm" => ENABLED TurnLlm(LlmOk("Task started.", <<>>))

\* the Tool message the turn holds for a spawn call that returned task_id
SpawnedByTurn(task_id) ==
    \E i \in 1..Len(turn.messages) :
        turn.messages[i] =
            Message("Tool", SpawnStarted(task_id), Some("call_spawn"), None)

\* C8 witness: the turn gave its final reply while the subagent it spawned
\* is still Running with a live runner, and a second subagent is Running
\* with a live runner at the same time.
C8_Witness ==
    /\ turn.pc = "done" /\ turn.result = Some(Ok("Task started."))
    /\ \E id, other \in DOMAIN tasks :
          /\ id # other
          /\ SpawnedByTurn(id)
          /\ tasks[id].status = "Running" /\ Launched(id) /\ Alive(runner[id])
          /\ tasks[other].status = "Running" /\ Launched(other) /\ Alive(runner[other])

---------------------------------------------------------------------------
(* Claims checked under SpecLoop                                           *)

\* number of Assistant messages in ms: the responses that asked for tools
RECURSIVE Assistants(_)
Assistants(ms) ==
    IF ms = <<>> THEN 0
    ELSE (IF Head(ms).role = "Assistant" THEN 1 ELSE 0) + Assistants(Tail(ms))

\* C9: for every cap k the loop issues at most k LLM calls and returns; when
\* all k responses asked for tools it returns "Max iterations reached." as
\* a success, and the subagent ends Completed with that text.
C9_LoopBounded ==
    /\ [](LET L == runner[LoopTask] IN
            /\ L.max = max_iterations
            /\ L.iter <= max_iterations
            /\ L.pc = "done" => IsSome(L.result)
            /\ (L.pc = "done" /\ Assistants(L.messages) = max_iterations) =>
                  /\ L.result = Some(Ok("Max iterations reached."))
                  /\ tasks[LoopTask].status = "Completed"
                  /\ tasks[LoopTask].result = Some("Max iterations reached."))
    /\ <>(runner[LoopTask].pc = "done")

\* C9 witness: a loop with cap k >= 2 made k LLM calls, each answered with
\* tool calls, and returned.
C9_Witness ==
    LET L == runner[LoopTask]
    IN  /\ max_iterations >= 2
        /\ L.pc = "done" /\ L.iter = max_iterations
        /\ Assistants(L.messages) = max_iterations
        /\ tasks[LoopTask].status = "Completed"

\* every Assistant message with n tool calls is followed by exactly n Tool
\* messages that carry the calls' ids in order, and every Tool message
\* answers such a call
WellPaired(ms) ==
    /\ \A i \in 1..Len(ms) :
          (ms[i].role = "Assistant" /\ IsSome(ms[i].tool_calls)) =>
              LET tcs == Unwrap(ms[i].tool_calls)
                  n == Len(tcs)
              IN  /\ i + n <= Len(ms)
                  /\ \A j \in 1..n :
                        /\ ms[i + j].role = "Tool"
                        /\ ms[i + j].tool_call_id = Some(tcs[j].id)
                  /\ i + n + 1 <= Len(ms) => ms[i + n + 1].role # "Tool"
    /\ \A t \in 1..Len(ms) :
          ms[t].role = "Tool" =>
              \E i \in 1..(t - 1) :
                  /\ ms[i].role = "Assistant" /\ IsSome(ms[i].tool_calls)
                  /\ t <= i + Len(Unwrap(ms[i].tool_calls))

\* C10: the message list of every LLM call in flight is well paired.
C10_ToolMessagesPaired ==
    \A id \in DOMAIN runner :
        runner[id].pc = "llm" => WellPaired(runner[id].messages)

\* C10 witness: an LLM call is in flight whose message list holds an
\* Assistant message with two tool calls, the first with unparsable
\* arguments and the second for an unregistered tool.
C10_Witness ==
    LET L == runner[LoopTask]
    IN  /\ L.pc = "llm"
        /\ \E i \in 1..Len(L.messages) :
              /\ L.messages[i].role = "Assistant"
              /\ IsSome(L.messages[i].tool_calls)
              /\ LET tcs == Unwrap(L.messages[i].tool_calls)
                 IN  /\ Len(tcs) = 2
                     /\ ~tcs[1].args_ok
                     /\ tcs[2].name \notin L.registry

\* the tool calls of ms that have been answered by a Tool message, as
\* <<index of the Assistant message, index of the call in it>>
Answered(ms) ==
    {p \in (1..Len(ms)) \X (1..MaxCalls + 1) :
        /\ ms[p[1]].role = "Assistant" /\ IsSome(ms[p[1]].tool_calls)
        /\ p[2] <= Len(Unwrap(ms[p[1]].tool_calls))
        /\ p[1] + p[2] <= Len(ms)}

\* the call an answered pair stands for, and the Tool message that answers it
CallOf(ms, p) == Unwrap(ms[p[1]].tool_calls)[p[2]]
AnswerOf(ms, p) == ms[p[1] + p[2]]

\* C11: a failing tool call never fails the loop or skips later calls: a
\* call with unparsable arguments starts no tool and is answered by the Tool
\* message "Invalid JSON arguments: <err>", a call to an unregistered name is
\* answered by the registry's error text, the loop returns an error only for
\* a failed LLM call, and after the calls of a response (all of them
\* answered) the loop issues the next LLM call or returns at its cap.
C11_FailingCallsAreData ==
    LET L == runner[LoopTask]
        ms == L.messages
        ran == {p \in Answered(ms) :
                   CallOf(ms, p).args_ok /\ CallOf(ms, p).name \in L.registry}
    IN  /\ \A p \in Answered(ms) :
              /\ ~CallOf(ms, p).args_ok =>
                    AnswerOf(ms, p).content = "Invalid JSON arguments: " \o JsonError
              /\ (CallOf(ms, p).args_ok /\ CallOf(ms, p).name \notin L.registry) =>
                    AnswerOf(ms, p).content =
                        ToolResult_error("tool '" \o CallOf(ms, p).name \o "' not found").for_llm
        /\ L.invoked = Cardinality(ran) + (IF L.pc = "tool" THEN 1 ELSE 0)
        /\ (L.pc = "done" /\ ~Unwrap(L.result).ok) =>
              Unwrap(L.result) = Err(AgentErrorLlm("500"))
        /\ L.pc = "llm" => (WellPaired(ms) /\ L.iter = Assistants(ms) + 1)
        /\ (L.pc = "done" /\ Unwrap(L.result) = Ok("Max iterations reached.")) =>
              (WellPaired(ms) /\ L.iter = Assistants(ms))

\* C11 witness: the next LLM call is in flight after a response whose first
\* call failed (unparsable arguments or an unregistered name) and whose
\* second call is a registered tool that ran and was answered.
C11_Witness ==
    LET L == runner[LoopTask]
        ms == L.messages
    IN  /\ L.pc = "llm" /\ L.invoked >= 1
        /\ \E i \in 1..Len(ms) :
              /\ ms[i].role = "Assistant" /\ IsSome(ms[i].tool_calls)
              /\ LET tcs == Unwrap(ms[i].tool_calls)
                 IN  /\ Len(tcs) = 2
                     /\ ~tcs[1].args_ok \/ tcs[1].name \notin L.registry
                     /\ tcs[2].args_ok /\ tcs[2].name \in L.registry
                     /\ ms[i + 2].content = "file content"

---------------------------------------------------------------------------
(* Claims checked under SpecDisp                                           *)

\* the tool results of the dispatcher's turns that carry text for the user
\* and are not silent, and the sends the loop made for tool results
ForUserResults == SelectSeq(log.calls, LAMBDA c : c.result.for_user # <<>> /\ ~c.result.silent)
ForUserSends == SelectSeq(log.sent, LAMBDA e : e.kind = "for_user")

\* C12 as stated: within a turn every tool result with for_user text and
\* silent = false is on the outbound channel from the moment the tool returns
C12_ForUserEnqueued ==
    \A i \in DOMAIN ForUserResults :
        \E j \in DOMAIN log.sent :
            /\ log.sent[j].kind = "for_user" /\ log.sent[j].ok
            /\ log.sent[j].turn = ForUserResults[i].turn
            /\ log.sent[j].call = ForUserResults[i].call

\* C12: within a turn the loop try-sends the for_user text of a result that
\* is not silent when the tool returns (a full channel drops it), so the sends
\* are in tool-call order and precede the turn's final reply; a result that is
\* silent or has no for_user text causes no send by the loop
C12_ForUserTrySent ==
    /\ Len(ForUserSends) = Len(ForUserResults)
    /\ \A i \in DOMAIN ForUserSends :
          LET e == ForUserSends[i]
              c == ForUserResults[i]
          IN  /\ e.turn = c.turn /\ e.call = c.call
              /\ e.msg = OutboundMsg(log.served[c.turn].chat_id, Unwrap(c.result.for_user),
                                     log.served[c.turn].channel)
    /\ \A j, k \in DOMAIN log.sent :
          (j < k /\ log.sent[j].kind = "final" /\ log.sent[k].kind = "for_user")
              => log.sent[j].turn < log.sent[k].turn

\* a turn forwarded the texts of two tool calls, ran a silent result too,
\* and then sent its final reply
C12_Witness ==
    \E j, k, l \in DOMAIN log.sent :
        /\ j < k /\ k < l
        /\ log.sent[j].kind = "for_user" /\ log.sent[k].kind = "for_user"
        /\ log.sent[l].kind = "final"
        /\ log.sent[j].turn = log.sent[l].turn /\ log.sent[k].turn = log.sent[l].turn
        /\ log.sent[j].call # log.sent[k].call
        /\ \E c \in DOMAIN log.calls :
              /\ log.calls[c].turn = log.sent[l].turn /\ log.calls[c].result.silent
              /\ log.calls[c].result.for_user # <<>>

\* C13: in a turn in which a tool delivered text and set the delivered flag
\* the dispatcher does not send the turn's final reply
C13_DeliveredSuppressesReply ==
    [][(delivered /\ Len(log'.sent) > Len(log.sent))
          => log'.sent[Len(log'.sent)].kind # "final"]_vars

\* the turns the dispatcher has finished, and the final replies of turn n
Finished == 1..Len(log.outcomes)
Finals(n) == {j \in DOMAIN log.sent : log.sent[j].kind = "final" /\ log.sent[j].turn = n}
ToolDelivered(n) ==
    \E j \in DOMAIN log.sent :
        log.sent[j].turn = n /\ log.sent[j].kind = "message" /\ log.sent[j].ok

\* C14: the dispatcher enqueues at most one final reply per message it
\* consumes, and exactly one, to the message's chat id and channel, when the
\* message is not a heartbeat with chat id 0 and no tool set the delivered
\* flag; a turn that fails with an LLM or session error e is answered with
\* "Error: e." and the dispatcher then takes the next queued message
C14_OneFinalReply ==
    /\ \A n \in 1..Len(log.served) : Cardinality(Finals(n)) <= 1
    /\ \A n \in Finished :
          LET msg == log.served[n] IN
          /\ (~(msg.channel = "heartbeat" /\ msg.chat_id = 0) /\ ~ToolDelivered(n))
                => /\ Cardinality(Finals(n)) = 1
                   /\ \A j \in Finals(n) :
                         /\ log.sent[j].msg.chat_id = msg.chat_id
                         /\ log.sent[j].msg.channel = msg.channel
                         /\ log.sent[j].ok
                         /\ ~log.outcomes[n].ok
                               => log.sent[j].msg.text = "Error: " \o log.outcomes[n].val \o "."
          /\ (msg.channel = "heartbeat" /\ msg.chat_id = 0) => Finals(n) = {}
    /\ (disp.pc = "recv" /\ inbound # <<>>) => ENABLED DispRecv

\* a chat turn failed, its error reply was sent, and the dispatcher has
\* taken the next message
C14_Witness ==
    \E n \in Finished :
        /\ ~log.outcomes[n].ok /\ log.served[n].channel = "telegram"
        /\ Finals(n) # {} /\ ~ToolDelivered(n)
        /\ Len(log.served) > n

\* C17: no sender ever waits for room on the outbound channel: the tool
\* step of a turn, the cron runner's emission and the dispatcher's send of
\* the final reply can each be taken whatever the channel holds
C17_NoSenderBlocks ==
    /\ (disp.pc = "turn" /\ turn.pc = "tool") => ENABLED DispTool
    /\ now.due # <<>> => ENABLED CronFire
    /\ disp.pc = "reply" => ENABLED DispReply

\* the dispatcher is in the turn of a heartbeat message
HeartbeatTurn == IsSome(disp.msg) /\ Unwrap(disp.msg).channel = "heartbeat"

\* C18: a heartbeat turn is stateless: its prompt is built from an empty
\* history and an empty summary, and from its start to its end, whether it
\* succeeds or fails, the session store does not change
C18_HeartbeatStateless ==
    [][(HeartbeatTurn \/ HeartbeatTurn')
          => /\ sessions' = sessions
             /\ (HeartbeatTurn' /\ disp'.pc = "turn")
                   => SubSeq(turn'.messages, 1, 2) =
                         <<Message("System", "You are iCrab.", None, None),
                           Message("User", Unwrap(disp'.msg).text, None, None)>>]_vars

\* a heartbeat turn that ran a tool, for a chat that has a stored history,
\* has ended
C18_Witness ==
    /\ HeartbeatTurn /\ disp.pc = "reply"
    /\ Unwrap(disp.msg).chat_id \in DOMAIN sessions
    /\ sessions[Unwrap(disp.msg).chat_id] # <<>>
    /\ Len(turn.messages) > 2

\* C19: the last known chat changes only when the dispatcher takes a
\* message that is not a heartbeat, and becomes that message's chat id; a
\* heartbeat message carries the last known chat read at its tick; the final
\* reply of a heartbeat turn with chat id 0 is never enqueued
C19_LastChat ==
    [][/\ last_chat_id' # last_chat_id
          => /\ disp.pc = "recv" /\ inbound # <<>> /\ inbound' = Tail(inbound)
             /\ Head(inbound).channel # "heartbeat"
             /\ last_chat_id' = Head(inbound).chat_id
       /\ (hb.pending = <<>> /\ hb'.pending # <<>>) => hb'.chat_id = last_chat_id
       /\ (Len(log'.enq) > Len(log.enq) /\ log'.enq[Len(log'.enq)].channel = "heartbeat")
          => log'.enq[Len(log'.enq)].chat_id = hb.chat_id
       /\ \A j \in DOMAIN log'.sent :
             log'.sent[j].kind = "final"
                => ~(log.served[log'.sent[j].turn].channel = "heartbeat"
                     /\ log.served[log'.sent[j].turn].chat_id = 0)]_vars

\* a heartbeat turn with chat id 0 has ended after a chat message moved the
\* last known chat, and a heartbeat message carrying a known chat was served
C19_Witness ==
    \E n \in Finished :
        /\ log.served[n].channel = "heartbeat" /\ log.served[n].chat_id = 0
        /\ last_chat_id # 0

---------------------------------------------------------------------------
(* Claims checked under SpecQueue                                          *)

\* C15: the dispatcher serves the messages of chat, cron and heartbeat in
\* the order in which they entered the queue, one at a time: a turn starts
\* only when every earlier turn has ended, and while a turn is in progress
\* no message is taken, whatever the producers enqueue
C15_FifoOneAtATime ==
    /\ log.served \o inbound = log.enq
    /\ Len(log.outcomes) = IF disp.pc = "recv" THEN Len(log.served) ELSE Len(log.served) - 1
    /\ disp.pc # "recv" => ~ENABLED DispRecv
    /\ disp.pc # "recv" => Unwrap(disp.msg) = log.served[Len(log.served)]

\* messages of all three producers have been served, and the queue filled
\* up while the dispatcher was inside a turn
C15_Witness ==
    /\ {log.served[n].channel : n \in DOMAIN log.served} = {"telegram", "cron", "heartbeat"}
    /\ disp.pc = "turn"
    /\ Len(inbound) = InboundCap

\* C16: with the queue full, the cron producer and the heartbeat producer
\* go on without waiting (each drops its message), and the chat transport
\* waits for room
C16_ProducersOnFullQueue ==
    Len(inbound) = InboundCap
        => /\ now.due # <<>> => ENABLED CronFire
           /\ hb.pending # <<>> => ENABLED HbSend
           /\ tg.pending # <<>> => ~ENABLED TgSend

\* C20: when the channel a due job's message goes to is full at its
\* emission, the job is not marked fired: enabled, last-fire and next-fire
\* keep their values, so the next tick finds it due again
C20_FullChannelKeepsJob ==
    [][\A i \in DOMAIN jobs :
          (/\ now.due # <<>> /\ now'.due = Tail(now.due)
           /\ Head(now.due).id = jobs[i].id
           /\ IF jobs[i].action = "agent" THEN Len(inbound) >= InboundCap
              ELSE Len(outbound) >= OutboundCap)
          => jobs'[i] = jobs[i]]_vars

---------------------------------------------------------------------------
(* Claims checked under SpecParse                                          *)

\* C28: parse_cron_expr returns on every input, and returns an error for
\* every malformed expression (wrong number of fields, value or range bound
\* out of range, reversed range, step of zero in */S or in N-M/S)
C28_ParseTerminates ==
    /\ [](parser.pc = "done" /\ parser.expr \in Malformed => ~Unwrap(parser.result).ok)
    /\ (parser.pc # "idle") ~> (parser.pc = "done")

\* the date matches the month, day-of-month and day-of-week fields (all three)
MatchDay(expr, date) ==
    /\ Contains(expr.months, Civil(date).month)
    /\ Contains(expr.doms, Civil(date).day)
    /\ Contains(expr.dows, num_days_from_sunday(date))

\* the whole-minute times of a date whose hour and minute match
DayTimes(expr, date) ==
    {date * SecondsPerDay + expr.hours[i] * 3600 + expr.minutes[j] * 60 :
        i \in DOMAIN expr.hours, j \in DOMAIN expr.minutes}

\* the last date of a month
MonthEnd(y, m) == (IF m = 12 THEN from_ymd(y + 1, 1, 1) ELSE from_ymd(y, m + 1, 1)) - 1

\* the dates of lo..hi that a listed month and a listed day-of-month name and
\* whose day of the week is listed
MatchDates(expr, lo, hi) ==
    LET Months == {<<y, expr.months[i]>> : y \in Civil(lo).year..Civil(hi).year,
                                          i \in DOMAIN expr.months}
        Live == {ym \in Months : from_ymd(ym[1], ym[2], 1) <= hi /\ MonthEnd(ym[1], ym[2]) >= lo}
        Dates(ym) == {date \in {from_ymd(ym[1], ym[2], expr.doms[j]) : j \in DOMAIN expr.doms} :
                         date <= MonthEnd(ym[1], ym[2])}
    IN  {date \in UNION {Dates(ym) : ym \in Live} :
            lo <= date /\ date <= hi /\ Contains(expr.dows, num_days_from_sunday(date))}

\* the matching times T of the dates lo..hi with after < T < before
MatchesBetween(expr, lo, hi, after, before) ==
    {T \in UNION {DayTimes(expr, date) : date \in MatchDates(expr, lo, hi)} :
        after < T /\ T < before}

\* the last date of the search horizon: 31 December of the year LIMIT_YEARS
\* after the year of the first whole minute after t
HorizonEnd(after_unix) ==
    from_ymd(Civil(((after_unix \div 60 + 1) * 60) \div SecondsPerDay).year + LIMIT_YEARS + 1, 1, 1) - 1

\* C27: next_match(expr, t) returns the smallest whole-minute time strictly
\* after t whose minute, hour, day-of-month, month and day-of-week all match
\* expr, or None when there is none within the search horizon; for
\* "0 9 * * 1-5" after Sun 2026-02-22 12:00:00 UTC it is Mon 2026-02-23
\* 09:00:00 UTC.
C27_NextMatchIsLeast ==
    parser.pc = "matched" =>
        LET r == Unwrap(parser.result)
            t == parser.after
            expr == parser.expr
        IN  /\ r = next_match(expr, t)
            /\ IsSome(r) =>
                  /\ Unwrap(r) > t
                  /\ Unwrap(r) % 60 = 0
                  /\ MatchDay(expr, Unwrap(r) \div SecondsPerDay)
                  /\ Unwrap(r) \in DayTimes(expr, Unwrap(r) \div SecondsPerDay)
                  /\ MatchesBetween(expr, t \div SecondsPerDay, Unwrap(r) \div SecondsPerDay,
                                    t, Unwrap(r)) = {}
            /\ ~IsSome(r) =>
                  MatchesBetween(expr, t \div SecondsPerDay, HorizonEnd(t),
                                 t, (HorizonEnd(t) + 1) * SecondsPerDay) = {}
            /\ (expr = parse_cron_expr(<<"0", " ", "9", " ", "*", " ", "*", " ", "1", "-", "5">>).val /\ t = 1771761600)
                  => r = Some(1771837200)

\* the example call has returned Mon 2026-02-23 09:00:00 UTC
C27_Witness ==
    /\ parser.pc = "matched"
    /\ parser.after = 1771761600
    /\ parser.expr = parse_cron_expr(<<"0", " ", "9", " ", "*", " ", "*", " ", "1", "-", "5">>).val
    /\ Unwrap(parser.result) = Some(1771837200)

\* no date of lo..hi has a matching time T with after < T < before
NoMatchBetween(expr, lo, hi, after, before) ==
    \A date \in MatchDates(expr, lo, hi) :
        \A T \in DayTimes(expr, date) : ~(after < T /\ T < before)

\* r is the first time after t that matches the cron expression of the
\* schedule, or None when it has no match within the search horizon (a
\* malformed expression has no match)
IsNextMatch(schedule, t, r) ==
    LET e == parse_cron_expr(schedule.expr) IN
    IF ~e.ok THEN r = None
    ELSE IF IsSome(r)
    THEN /\ Unwrap(r) > t
         /\ MatchDay(e.val, Unwrap(r) \div SecondsPerDay)
         /\ Unwrap(r) \in DayTimes(e.val, Unwrap(r) \div SecondsPerDay)
         /\ NoMatchBetween(e.val, t \div SecondsPerDay, Unwrap(r) \div SecondsPerDay, t, Unwrap(r))
    ELSE NoMatchBetween(e.val, t \div SecondsPerDay, HorizonEnd(t), t,
                        (HorizonEnd(t) + 1) * SecondsPerDay)

\* the step is tick_once's mark_fired call for the head of its snapshot
MarkFiredStep == now.due # <<>> /\ now'.due = Tail(now.due) /\ now'.t = now.t

\* C21: mark_fired(id, now) on an existing job sets last-fire = now and
\* recomputes next-fire: a Once job becomes disabled with next-fire None, an
\* Interval{s} job gets now + s, a Cron job its next match after now; every
\* other job, and the whole list when the id is unknown, is left as it was.
C21_MarkFired ==
    [][MarkFiredStep =>
        LET id == Head(now.due).id
            t == now.t
        IN  /\ Len(jobs') = Len(jobs)
            /\ \A i \in DOMAIN jobs :
                  IF jobs[i].id # id THEN jobs'[i] = jobs[i]
                  ELSE /\ jobs'[i].last_run = Some(t)
                       /\ jobs'[i] = [jobs[i] EXCEPT !.last_run = jobs'[i].last_run,
                                                     !.next_run = jobs'[i].next_run,
                                                     !.enabled = jobs'[i].enabled]
                       /\ jobs[i].schedule.type = "once" =>
                             ~jobs'[i].enabled /\ jobs'[i].next_run = None
                       /\ jobs[i].schedule.type = "interval" =>
                             /\ jobs'[i].next_run = Some(t + jobs[i].schedule.n)
                             /\ jobs'[i].enabled = jobs[i].enabled
                       /\ jobs[i].schedule.type = "cron" =>
                             /\ IsNextMatch(jobs[i].schedule, t, jobs'[i].next_run)
                             /\ jobs'[i].enabled = jobs[i].enabled
            /\ HasJob(jobs, id) \/ jobs' = jobs]_vars

\* a tick has marked a one-shot job and an interval job fired
C21_Witness ==
    /\ now.due = <<>>
    /\ \E i \in DOMAIN jobs :
          /\ jobs[i].schedule.type = "once" /\ jobs[i].last_run = Some(now.t)
          /\ ~jobs[i].enabled /\ jobs[i].next_run = None
    /\ \E i \in DOMAIN jobs :
          /\ jobs[i].schedule.type = "interval" /\ jobs[i].last_run = Some(now.t)
          /\ jobs[i].next_run = Some(now.t + jobs[i].schedule.n)

\* C25: in every reachable state of the cron store a disabled job has
\* next-fire = None, whatever disable, enable and remove calls come between a
\* tick's find_due snapshot and its mark_fired calls.
C25_DisabledHasNoNextFire ==
    \A i \in DOMAIN jobs : ~jobs[i].enabled => jobs[i].next_run = None

\* C26: in every reachable state of the cron store an enabled job without a
\* next-fire is a Once job whose last-fire is set.
C26_EnabledWithoutNextFire ==
    \A i \in DOMAIN jobs :
        (jobs[i].enabled /\ jobs[i].next_run = None) =>
            (jobs[i].schedule.type = "once" /\ IsSome(jobs[i].last_run))

\* the step is a call of CronStore::add
AddStep == cron'.calls = cron.calls + 1 /\ cron'.ret # cron.ret

\* the schedules the claim says add rejects at time t
MustReject(schedule, t) ==
    \/ schedule.type = "once" /\ schedule.n <= t
    \/ schedule.type = "interval" /\ schedule.n < 60
    \/ schedule.type = "cron" /\ IsNextMatch(schedule, t, None)

ValidationErrors ==
    {CronError_Validation("interval must be at least 60 seconds"),
     CronError_Validation("Scheduled time must be in the future"),
     CronError_Validation("cron expression has no upcoming matches")}

\* C24: add rejects, with a validation error and without adding a job, every
\* Once schedule with at <= now, every Interval schedule under 60 seconds and
\* every Cron schedule with no upcoming match; every accepted job is appended
\* enabled, with last-fire None and next-fire at (Once), now + s (Interval) or
\* the next match after now (Cron).
C24_AddValidates ==
    [][AddStep =>
        LET r == Unwrap(cron'.ret)
            t == cron.clock
        IN  IF MustReject(r.schedule, t)
            THEN /\ ~r.res.ok /\ r.res.val \in ValidationErrors
                 /\ jobs' = jobs /\ cron'.file = cron.file /\ cron'.next_id = cron.next_id
            ELSE /\ r.res.ok
                 /\ jobs' = Append(jobs, r.res.val) /\ cron'.file = jobs'
                 /\ ~HasJob(jobs, r.res.val.id)
                 /\ r.res.val.schedule = r.schedule
                 /\ r.res.val.enabled /\ r.res.val.last_run = None
                 /\ r.schedule.type = "once" => r.res.val.next_run = Some(r.schedule.n)
                 /\ r.schedule.type = "interval" => r.res.val.next_run = Some(t + r.schedule.n)
                 /\ r.schedule.type = "cron" =>
                       /\ IsSome(r.res.val.next_run)
                       /\ IsNextMatch(r.schedule, t, r.res.val.next_run)]_vars

\* after an accepted job, add has rejected the cron expression that never
\* matches and left the list as it was
C24_Witness ==
    /\ Len(jobs) = 1 /\ jobs[1].enabled /\ jobs[1].last_run = None /\ IsSome(jobs[1].next_run)
    /\ IsSome(cron.ret)
    /\ Unwrap(cron.ret).schedule = Cron(NeverMatches)
    /\ ~Unwrap(cron.ret).res.ok
    /\ cron.file = jobs

\* the log entries of tick number k, in the order of their try_send calls
EmitsOf(k) == SelectSeq(log.emit, LAMBDA e : e.tick = k)

\* the jobs that were enabled with next-fire <= now when tick number k began
DueAt(k) ==
    SelectSeq(log.ticks[k].jobs,
              LAMBDA j : j.enabled /\ j.next_run # None /\ Unwrap(j.next_run) <= log.ticks[k].t)

\* the message tick_once is to build for a job, and the channel it goes to
EmitKind(job) == IF job.action = "agent" THEN "inbound" ELSE "outbound"

EmitMsg(job) ==
    IF job.action = "agent"
    THEN [chat_id |-> job.chat_id, user_id |-> 0, text |-> job.message, channel |-> "cron"]
    ELSE [chat_id |-> job.chat_id, text |-> job.message, channel |-> "cron"]

\* C23: tick_once at time now emits (hands to try_send) exactly one message
\* for each job that is enabled with next-fire <= now and none for any other
\* job: an Agent job's is an inbound message (job's chat-id, user-id 0, job
\* text, channel "cron"), a Direct job's an outbound message (job's chat-id,
\* job text, channel "cron"); so an Interval job is emitted once per tick
\* however many intervals have elapsed.  The channels hold the messages
\* try_send took.
C23_TickEmitsDueJobs ==
    /\ \A k \in DOMAIN log.ticks :
          LET due == DueAt(k)
              done == IF k = Len(log.ticks) THEN Len(due) - Len(now.due) ELSE Len(due)
              emits == EmitsOf(k)
          IN  /\ Len(emits) = done
              /\ \A i \in 1..done :
                    /\ emits[i].job = due[i]
                    /\ emits[i].kind = EmitKind(due[i])
                    /\ emits[i].msg = EmitMsg(due[i])
              /\ \A i, j \in 1..done : emits[i].job.id = emits[j].job.id => i = j
    /\ \A i \in DOMAIN log.emit : log.emit[i].tick \in DOMAIN log.ticks
    /\ LET taken(kind) == SelectSeq(log.emit, LAMBDA e : e.kind = kind /\ e.ok) IN
       /\ Len(inbound) = Len(taken("inbound"))
       /\ \A i \in DOMAIN inbound :
             inbound[i] = InboundMsg(taken("inbound")[i].msg.chat_id, taken("inbound")[i].msg.text,
                                     taken("inbound")[i].msg.channel)
       /\ outbound = [i \in 1..Len(taken("outbound")) |-> taken("outbound")[i].msg]

\* a finished tick has emitted an inbound message for an Agent interval job
\* that was a whole interval overdue, once, and a finished tick has emitted an
\* outbound message for a Direct job
C23_Witness ==
    /\ now.due = <<>>
    /\ \E i \in DOMAIN log.emit :
          LET e == log.emit[i] IN
          /\ e.kind = "inbound" /\ e.ok /\ e.job.schedule.type = "interval"
          /\ Unwrap(e.job.next_run) + e.job.schedule.n <= log.ticks[e.tick].t
          /\ Len(SelectSeq(EmitsOf(e.tick), LAMBDA x : x.job.id = e.job.id)) = 1
    /\ \E i \in DOMAIN log.emit : log.emit[i].kind = "outbound" /\ log.emit[i].ok

\* the log entries for Once jobs; a job is known by its id and creation time
OnceEmits == SelectSeq(log.emit, LAMBDA e : e.job.schedule.type = "once")

---------------------------------------------------------------------------
(* The session store                                                       *)

IsPrefix(a, b) == Len(a) <= Len(b) /\ a = SubSeq(b, 1, Len(a))

\* the live Session's history and unsaved messages
History(ss) == IF IsSome(ss.live) THEN Unwrap(ss.live).history ELSE <<>>
Pending(ss) == IF IsSome(ss.live) THEN Unwrap(ss.live).pending_inserts ELSE <<>>

\* C29: after load and after every add_user_message, add_assistant_message,
\* add_tool_message and truncate_history call, the history of a Session
\* holds at most MAX_HISTORY (50) messages and is the most recent messages
\* of the chat in insertion order; when no truncate_history call has
\* shortened it, it is the last min(total, 50) of them.
C29_HistoryCapped ==
    IsSome(session.live) =>
        LET n == Len(History(session))
            total == Len(session.added)
        IN  /\ n <= MAX_HISTORY
            /\ n <= total
            /\ History(session) = LastN(session.added, n)
            /\ ~session.cut => n = MinOf(total, MAX_HISTORY)

\* 55 messages were added to a Session loaded from an empty chat: its
\* history is messages 5..54
C29_Witness ==
    /\ IsSome(session.live) /\ ~session.cut
    /\ load_session(ChatId) = <<>>
    /\ Len(session.added) = 55
    /\ Len(History(session)) = 50
    /\ \A i \in 1..50 : History(session)[i] = session.added[i + 5]
    /\ History(session)[1].content = 5 /\ History(session)[50].content = 54

C39_FailedAddLeavesJobs ==
    [][(AddStep /\ ~Unwrap(cron'.ret).res.ok) => jobs' = jobs]_vars

\* the step is a Session::save call that returned Ok
SaveOkStep ==
    /\ IsSome(session.live) /\ IsSome(session'.live)
    /\ session'.ret = Ret("save", TRUE)
    /\ session'.added = session.added
    /\ Unwrap(session'.live).summary = Unwrap(session.live).summary
    /\ History(session') = History(session)

C37_FailedSaveKeepsPending ==
    [][/\ (session'.ret = Ret("save", FALSE) /\ session.ret # session'.ret) =>
            /\ session'.live = session.live
            /\ session'.added = session.added
            /\ session'.chat_summary = session.chat_summary
            /\ load_session(ChatId)' = load_session(ChatId)
       /\ (session.ret = Ret("save", FALSE) /\ session'.ret = Ret("save", TRUE)) =>
            /\ Pending(session') = <<>>
            /\ load_session(ChatId)' =
                    load_session(ChatId) \o MapSeq(message_to_stored, Pending(session))
            /\ load_session(ChatId)' = MapSeq(message_to_stored, session'.added)
            /\ \A i \in 1..Len(load_session(ChatId)') : load_session(ChatId)'[i].content = i - 1
      ]_vars

\* a save has failed with two messages pending behind stored ones, and a
\* third was added after the failure
C37_Witness ==
    /\ session.ret = Ret("save", FALSE)
    /\ Len(Pending(session)) = 3
    /\ Len(load_session(ChatId)) = 2
    /\ Len(session.added) = 5

---------------------------------------------------------------------------
(* The chat transport                                                      *)

\* the step ends a round of poll_loop: the loop is back at get_updates
RoundEnd == tg'.pc = "poll" /\ tg' # tg

\* the update ids of a response's batch
BatchIds(resp) == {resp.result[i].update_id : i \in DOMAIN resp.result}

\* C35: in poll_loop a failed getUpdates call and an empty batch leave the
\* offset unchanged, a non-empty batch (also one of updates without text or
\* from a disallowed user) sets it to the largest update_id of the batch
\* plus one, and the offset never decreases.
C35_OffsetFollowsBatch ==
    [][/\ tg'.offset >= tg.offset
       /\ RoundEnd =>
            LET resp == Unwrap(tg'.resp) IN
            IF resp.status # 200 \/ ~resp.parses \/ resp.result = <<>>
            THEN tg'.offset = tg.offset
            ELSE /\ tg'.offset - 1 \in BatchIds(resp)
                 /\ \A id \in BatchIds(resp) : id <= tg'.offset - 1
      ]_vars

\* user_id is one of the ids of the allow-list
Authorised(allowed_user_ids, user_id) ==
    /\ allowed_user_ids # None
    /\ \E i \in DOMAIN Unwrap(allowed_user_ids) : Unwrap(allowed_user_ids)[i] = user_id

\* C36: whatever the allow-list of the configuration, every message the
\* transport has put on the dispatcher queue comes from a user-id of that
\* list; the updates of every other sender are dropped.
C36_OnlyAuthorisedQueued ==
    \A i \in DOMAIN log.enq : Authorised(tg.allowed_user_ids, log.enq[i].user_id)

---------------------------------------------------------------------------
(* The stateful turn                                                       *)

\* the Session as loaded, the live one, the summariser's report of the turn
AsLoaded == Unwrap(Pm.loaded)
Live == Unwrap(session.live)
Report == Unwrap(Pm.sum).report

\* the user message and the final reply of the turn, as the Session holds them
UserMsg == Message("User", Unwrap(Pm.user), None, None)
FinalMsg == Message("Assistant", Unwrap(Pm.loop).ret.val, None, None)

\* process_message has returned Ok
TurnOk == Pm.pc = "idle" /\ IsSome(Pm.result) /\ Unwrap(Pm.result).ok

Qualifies(msg) ==
    msg.role \in {"User", "Assistant"} /\ msg.content.chars \div 3 <= DEFAULT_CONTEXT_WINDOW \div 2

\* the messages summarize_if_needed does not keep
Older(history) == SubSeq(history, 1, Len(history) - KEEP_RECENT_MESSAGES)

NoneQualifies(history) == \A i \in DOMAIN Older(history) : ~Qualifies(Older(history)[i])

\* previous summary, blank line, new summary
Joined(previous, new) == IF previous = "" THEN new ELSE previous \o "\n\n" \o new

\* the summariser of this turn has returned
SummariserDone == Pm.pc = "summarized" /\ IsSome(Pm.sum)

\* C33 as stated: the summariser runs exactly when the loaded history has
\* more than 20 messages, before the user message is recorded; when it
\* succeeds the history is its last 4 messages and the summary is the
\* previous one, a blank line and the new one (the new one alone after an
\* empty one); when no message qualifies the history is cut to its last 14
\* messages and the summary stays.
C33_Stated ==
    Pm.pc = "summarized" =>
        /\ IsSome(Pm.sum) <=> Len(AsLoaded.history) > SUMMARIZE_THRESHOLD
        /\ Live.pending_inserts = <<>>
        /\ (IsSome(Pm.sum) /\ Report.ret = Ok(TRUE)) =>
                /\ Live.history = LastN(AsLoaded.history, KEEP_RECENT_MESSAGES)
                /\ Live.summary = Joined(AsLoaded.summary, Report.new)
        /\ (IsSome(Pm.sum) /\ NoneQualifies(AsLoaded.history)) =>
                /\ Live.history = LastN(AsLoaded.history, KEEP_RECENT_MESSAGES + 10)
                /\ Live.summary = AsLoaded.summary

\* C33: as stated, but the summary is joined only to a new summary that is
\* not empty: when the model answers with blank text the summariser
\* succeeds, the history is its last 4 messages and the summary is left as
\* it was loaded.
C33_SummariseAtStart ==
    Pm.pc = "summarized" =>
        /\ IsSome(Pm.sum) <=> Len(AsLoaded.history) > SUMMARIZE_THRESHOLD
        /\ Live.pending_inserts = <<>>
        /\ (IsSome(Pm.sum) /\ Report.ret = Ok(TRUE)) =>
                /\ Live.history = LastN(AsLoaded.history, KEEP_RECENT_MESSAGES)
                /\ Live.summary = IF Report.new = "" THEN AsLoaded.summary
                                  ELSE Joined(AsLoaded.summary, Report.new)
        /\ (IsSome(Pm.sum) /\ NoneQualifies(AsLoaded.history)) =>
                /\ Live.history = LastN(AsLoaded.history, KEEP_RECENT_MESSAGES + 10)
                /\ Live.summary = AsLoaded.summary

\* the summariser has added a new summary to the one of an earlier turn
C33_Witness ==
    /\ SummariserDone /\ Report.ret = Ok(TRUE)
    /\ AsLoaded.summary # "" /\ Report.new # ""
    /\ Live.summary = AsLoaded.summary \o "\n\n" \o Report.new
    /\ Len(AsLoaded.history) > Len(Live.history)

\* the answers to the calls the summariser made
SumCalls == Unwrap(Pm.sum).calls

\* the summariser made the merge call: the third of a turn
MergeCalled == Len(SumCalls) = 3

\* C34: a failure of the summariser never fails the turn and changes
\* nothing: when one of its calls to the model other than the merge call
\* fails, history and summary of the session are as loaded and the turn
\* goes on; when only the merge call fails, the two partial summaries
\* joined by a blank line are the new summary.
C34_SummariserFailure ==
    /\ SummariserDone =>
        /\ (\E i \in DOMAIN SumCalls : i < 3 /\ ~SumCalls[i].ok) =>
                Live.history = AsLoaded.history /\ Live.summary = AsLoaded.summary
        /\ (MergeCalled /\ ~SumCalls[3].ok) =>
                LET both == trim(SumCalls[1].val) \o "\n\n" \o trim(SumCalls[2].val) IN
                /\ Report.ret = Ok(TRUE)
                /\ Report.new \in {both, both \o "\n\n" \o SummaryNote}
                /\ Live.summary = Joined(AsLoaded.summary, Report.new)
    /\ (IsSome(Pm.sum) /\ ~Report.ret.ok) =>
            /\ Pm.pc # "loaded"
            /\ Pm.pc = "idle" => Pm.result # Some(Report.ret)
            /\ Pm.pc \in {"built", "looped"} => Live.summary = AsLoaded.summary

\* the merge call has failed and the turn goes on with both partial summaries
C34_Witness ==
    /\ Pm.pc = "built" /\ IsSome(Pm.sum)
    /\ MergeCalled /\ ~SumCalls[3].ok
    /\ Live.summary = "one\n\ntwo"

\* C38: a stateful turn writes to storage only at its end and only on
\* success: no step before the save changes the stored history or the
\* stored summary; when the turn fails (the model, the load or the save)
\* both are what they were before the turn, without the user message and
\* without the summary of this turn; when it succeeds the stored history
\* has grown by exactly the messages recorded in the turn, in one step.
C38_WritesAtEndOnly ==
    [][/\ Pm.pc # "looped" => Stored' = Stored
       /\ (Pm'.pc = "idle" /\ ~Unwrap(Pm'.result).ok) => Stored' = Unwrap(Pm'.before)
       /\ (Pm.pc = "looped" /\ Unwrap(Pm'.result).ok) =>
            /\ Stored'.rows = Stored.rows \o MapSeq(message_to_stored, <<UserMsg, FinalMsg>>)
            /\ Stored.rows = Unwrap(Pm.before).rows
            /\ Stored'.summary = Live.summary
      ]_vars

\* a turn has summarised, recorded the user message and failed in the loop,
\* and storage has neither
C38_Witness ==
    /\ Pm.pc = "idle" /\ IsSome(Pm.loop) /\ ~Unwrap(Pm.loop).ret.ok
    /\ IsSome(Pm.sum) /\ Report.ret = Ok(TRUE) /\ Report.new # ""
    /\ Stored = Unwrap(Pm.before)
    /\ Pm.messages # <<>>

\* C40: a message is folded into the summary at most once: the summariser
\* is never given a message that a saved turn has summarised before, and
\* the stored summary does not change in a turn that began with the
\* storage as a summarising turn left it.
C40_FoldedOnce ==
    /\ [](SummariserDone => \A i \in DOMAIN Report.valid : Report.valid[i] \notin Pm.folded)
    /\ [][(Pm.pc = "looped" /\ Pm.at > 0 /\ Len(Unwrap(Pm.before).rows) = Pm.at) =>
            session'.chat_summary = session.chat_summary]_vars

====
